---- MODULE Spec2Model ----
(***************************************************************************)
(* Model of the Subtronics MQTT-to-WebSocket gateway (src/index.js):       *)
(* payload normalisation, the alert rule engine, the in-process device     *)
(* state (subtronicsData, alarmLogs), Socket.IO room fan-out and the REST  *)
(* handlers that read or change that state.                                *)
(*                                                                         *)
(* JavaScript values are tagged records, so that `x || d`, `!== undefined`,*)
(* parseInt, parseFloat and the TypeErrors of the source can be computed   *)
(* as the runtime computes them.  Numbers are fixed-point, held in         *)
(* hundredths (Scale), so that a reading such as 999.99 is a value.        *)
(***************************************************************************)
EXTENDS Integers, Sequences, FiniteSets, TLC

VARIABLES
  subtronicsData,   \* Map key -> canonical record | alert array      (index.js:118)
  alarmLogs,        \* Map deviceId -> in-memory alarm log            (index.js:119)
  mongoConnected,   \* durable store reported connected               (index.js:16)
  mongoPending,     \* AlarmLog.create calls not yet settled          (index.js:322)
  mongoStore,       \* entries saved by the durable store
  mqttConnected,    \* broker connection flag                         (index.js:156)
  loopback,         \* gateway's own publications not yet delivered back
  sockets,          \* connected Socket.IO clients
  rooms,            \* room "device:<id>" -> set of member sockets
  emitted,          \* the events the last handler emitted, in order, each with the sockets it reached
  now,              \* the clock, in milliseconds (Date.now())
  nMsgs,            \* history: pipeline runs so far
  nClientOps,       \* history: socket operations so far
  nAcks,         \* history: acknowledge requests so far
  lastMsg,          \* history: serial -> last pipeline input for it
  lastOp,           \* history: the last handler that answered or emitted, and its outcome
  call,             \* a call of the normaliser and the rule engine on its own: input, results
  subscribed        \* history: <<socket, deviceId>> pairs subscribed and not since unsubscribed or disconnected

vars == <<subtronicsData, alarmLogs, mongoConnected, mongoPending, mongoStore,
          mqttConnected, loopback, sockets, rooms, emitted, now,
          nMsgs, nClientOps, nAcks, lastMsg, lastOp, call, subscribed>>

----------------------------------------------------------------------------
(* Bounds of the model *)

MaxMsgs == 2
MaxClientOps == 2
MaxAcks == 2
MaxClock == 1

(* Fixed point: one unit of the source is Scale hundredths. *)
Scale == 10 * 10

----------------------------------------------------------------------------
(* JavaScript values *)

Undefined == [t |-> "undefined"]
Null == [t |-> "null"]
NaN == [t |-> "NaN"]
Num(n) == [t |-> "number", v |-> n]
Str(s) == [t |-> "string", s |-> s]
True == [t |-> "boolean", b |-> TRUE]

\* ToBoolean
Truthy(x) ==
  CASE x.t = "undefined" -> FALSE
    [] x.t = "null" -> FALSE
    [] x.t = "NaN" -> FALSE
    [] x.t = "number" -> x.v # 0
    [] x.t = "string" -> x.s # ""
    [] x.t = "boolean" -> x.b
    [] OTHER -> TRUE

\* x || d
Or(x, d) == IF Truthy(x) THEN x ELSE d

\* x >= y on numbers: false as soon as one side is NaN
Ge(x, y) == x.t = "number" /\ y.t = "number" /\ x.v >= y.v

\* parseFloat: a number is kept; the strings of the input sets are not numeric
parseFloat(x) == IF x.t = "number" THEN x ELSE NaN

\* parseInt: a number is truncated toward zero
parseInt(x) ==
  IF x.t = "number"
  THEN Num(IF x.v >= 0 THEN (x.v \div Scale) * Scale
                       ELSE 0 - (((0 - x.v) \div Scale) * Scale))
  ELSE NaN

\* new Date(ms).toISOString()
toISOString(ms) == Str("T" \o ToString(ms))

\* String.prototype.trim on the unit strings of the input sets
trim(s) == IF s = " ppm" THEN "ppm" ELSE s

\* Array.prototype.findIndex(alert => alert.id === id): 0 stands for -1
findIndex(items, id) ==
  IF \E i \in 1..Len(items) : items[i].id = id
  THEN CHOOSE i \in 1..Len(items) :
         /\ items[i].id = id
         /\ \A j \in 1..(i - 1) : items[j].id # id
  ELSE 0

\* Map.prototype.set
MapSet(m, k, v) == [x \in (DOMAIN m) \cup {k} |-> IF x = k THEN v ELSE m[x]]

\* Map.prototype.get(k) || d
MapGetOr(m, k, d) == IF k \in DOMAIN m THEN Or(m[k], d) ELSE d

EmptyMap == [x \in {} |-> Undefined]
EmptyArray == [t |-> "array", items |-> <<>>]

----------------------------------------------------------------------------
(* Payloads.  Field names of the model and the JSON keys they stand for:   *)
(*   serial "OTSM-2 Serial Number", dateTime "Date Time At Reading",       *)
(*   timestamp "timestamp", sensorReading "Sensor Reading",                *)
(*   alarmStatus "Alarm Status",                                           *)
(*   unitSp "Unit of Measurement " (trailing space), unit "Unit of         *)
(*   Measurement", Parameters "Parameters"; inside Parameters:            *)
(*   liveSp "Live Sensor Readings " (trailing space), live "Live Sensor    *)
(*   Readings", offset "Offset", a1/a2/a3 "Alarm Level A1/A2/A3",          *)
(*   led1/led2/led3 "Alarm 1/2/3 LED Status", fault "Sensor Fault",        *)
(*   fault2 "SensorFault".                                                 *)
(* The descriptive pass-through fields (device name, gas, message type,    *)
(* sender, span, decimal point, A1 configuration, location) take part in   *)
(* no decision of the code and are left out of the records.                *)

EmptyParams ==
  [t |-> "object", liveSp |-> Undefined, live |-> Undefined, offset |-> Undefined,
   a1 |-> Undefined, a2 |-> Undefined, a3 |-> Undefined,
   led1 |-> Undefined, led2 |-> Undefined, led3 |-> Undefined,
   fault |-> Undefined, fault2 |-> Undefined,
   unitSp |-> Undefined, unit |-> Undefined]

EmptyObject ==
  [t |-> "object", serial |-> Undefined, dateTime |-> Undefined,
   timestamp |-> Undefined, sensorReading |-> Undefined, alarmStatus |-> Undefined,
   unitSp |-> Undefined, unit |-> Undefined, Parameters |-> Undefined]

\* property reads on a value that is no object yield undefined
AsObject(data) == IF data.t = "object" THEN data ELSE EmptyObject

\* const params = data["Parameters"] || {}
ParamsOf(data) ==
  LET p == Or(AsObject(data).Parameters, EmptyParams)
  IN  IF p.t = "object" THEN p ELSE EmptyParams

\* let unit = "ppm"; if / else if chain over the four accepted places
UnitOf(data) ==
  LET d == AsObject(data)
      p == ParamsOf(data)
  IN  IF p.unitSp # Undefined THEN Str("ppm")
      ELSE IF p.unit # Undefined THEN p.unit
      ELSE IF d.unitSp # Undefined THEN d.unitSp
      ELSE IF d.unit # Undefined THEN d.unit
      ELSE Str("ppm")

\* unit.toString().trim(); toString of null is a TypeError
UnitText(u) ==
  IF u.t = "string" THEN Str(trim(u.s))
  ELSE IF u.t = "number" THEN Str(ToString(u.v \div Scale))
  ELSE Str(u.t)

\* a chain that knows the two "Live Sensor Readings" spellings only
GasConcentrationLiveOnly(data) ==
  LET p == ParamsOf(data)
  IN  IF p.liveSp # Undefined THEN parseFloat(p.liveSp)
      ELSE IF p.live # Undefined THEN parseFloat(p.live)
      ELSE Num(0)

\* a chain that asks for the legacy "Offset" first
GasConcentrationOffsetFirst(data) ==
  LET d == AsObject(data)
      p == ParamsOf(data)
  IN  IF p.offset # Undefined THEN parseFloat(p.offset)
      ELSE IF p.liveSp # Undefined THEN parseFloat(p.liveSp)
      ELSE IF p.live # Undefined THEN parseFloat(p.live)
      ELSE IF d.sensorReading # Undefined THEN parseFloat(d.sensorReading)
      ELSE Num(0)

\* let gasConcentration = 0; if / else if chain, first present wins
GasConcentration(data) ==
  LET d == AsObject(data)
      p == ParamsOf(data)
  IN  IF p.liveSp # Undefined THEN parseFloat(p.liveSp)
      ELSE IF p.live # Undefined THEN parseFloat(p.live)
      ELSE IF d.sensorReading # Undefined THEN parseFloat(d.sensorReading)
      ELSE IF p.offset # Undefined THEN parseFloat(p.offset)
      ELSE Num(0)

\* a default serial number of its own for each payload, made of its reading
SerialNumberPerPayload(data) ==
  Or(AsObject(data).serial,
     Str("Unknown-" \o ToString(Or(parseFloat(ParamsOf(data).liveSp), Num(0)).v)))

\* data["OTSM-2 Serial Number"] || "Unknown"
SerialNumberOf(data) == Or(AsObject(data).serial, Str("Unknown"))

\* a timestamp that is always the time of processing
TimestampAlwaysNow(data, ms) == toISOString(ms)

\* data["Date Time At Reading"] || data["timestamp"] || new Date().toISOString()
TimestampOf(data, ms) ==
  LET d == AsObject(data)
  IN  Or(d.dateTime, Or(d.timestamp, toISOString(ms)))

\* a status that looks at the LED flags only
AlarmStatusLedsOnly(sensorFault, alarm1Led, alarm2Led, alarm3Led) ==
  IF \/ alarm3Led = Num(1 * Scale) \/ alarm2Led = Num(1 * Scale)
     \/ alarm1Led = Num(1 * Scale)
  THEN "ALARM" ELSE "NORMAL"

\* a status that looks at the sensor fault only
AlarmStatusFaultOnly(sensorFault, alarm1Led, alarm2Led, alarm3Led) ==
  IF sensorFault = Num(1 * Scale) THEN "ALARM" ELSE "NORMAL"

\* let alarmStatus = "NORMAL"; if (sensorFault === 1 || alarm3Led === 1 ||
\* alarm2Led === 1 || alarm1Led === 1) alarmStatus = "ALARM"
AlarmStatus(sensorFault, alarm1Led, alarm2Led, alarm3Led) ==
  IF \/ sensorFault = Num(1 * Scale) \/ alarm3Led = Num(1 * Scale)
     \/ alarm2Led = Num(1 * Scale) \/ alarm1Led = Num(1 * Scale)
  THEN "ALARM" ELSE "NORMAL"

\* a parser that fills in defaults where the code throws and returns null
ParseNeverThrows(rawJson) == FALSE

\* the cases in which the try block of parseSubtronicsPayload throws:
\* JSON.parse of a string that is no JSON, a property read on null or
\* undefined, toString of a null unit
ParseThrows(rawJson) ==
  \/ rawJson.t \in {"string", "null", "undefined"}
  \/ UnitOf(rawJson).t = "null"

parseSubtronicsPayload(rawJson, ms) ==
  IF ParseThrows(rawJson) THEN Null
  ELSE
    LET data == rawJson
        d == AsObject(data)
        params == ParamsOf(data)
        gasConcentration == GasConcentration(data)
        alarm1Led == Or(parseInt(params.led1), Num(0))
        alarm2Led == Or(parseInt(params.led2), Num(0))
        alarm3Led == Or(parseInt(params.led3), Num(0))
        sensorFault == Or(parseInt(params.fault), Or(parseInt(params.fault2), Num(0)))
        alarmStatus == AlarmStatus(sensorFault, alarm1Led, alarm2Led, alarm3Led)
    IN  [t |-> "record",
         serial_number |-> SerialNumberOf(data),
         timestamp |-> TimestampOf(data, ms),
         unit |-> UnitText(UnitOf(data)),
         sensor_reading |-> gasConcentration,
         offset |-> gasConcentration,
         alarm_status |-> alarmStatus,
         a1_level |-> Or(parseInt(params.a1), Num(250 * Scale)),
         a2_level |-> Or(parseInt(params.a2), Num(500 * Scale)),
         a3_level |-> Or(parseInt(params.a3), Num(1000 * Scale)),
         alarm1_led |-> alarm1Led,
         alarm2_led |-> alarm2Led,
         alarm3_led |-> alarm3Led,
         sensor_fault |-> sensorFault,
         raw_message |-> data,
         processed_at |-> toISOString(ms)]

----------------------------------------------------------------------------
(* Alert rule engine and alarm log *)

\* `${prefix}_${data.serial_number}_${Date.now()}`
AlertId(prefix, serial, ms) == prefix \o "_" \o serial.s \o "_" \o ToString(ms)

\* the alert object literal; a sensor_fault alert has no threshold property,
\* and no alert has an acknowledged* property when it is created
Alert(prefix, type, severity, data, threshold, current, ms) ==
  [id |-> AlertId(prefix, data.serial_number, ms),
   type |-> type,
   severity |-> severity,
   timestamp |-> toISOString(ms),
   serial_number |-> data.serial_number,
   threshold |-> threshold,
   current_value |-> current,
   unit |-> data.unit,
   acknowledged |-> Undefined,
   acknowledged_at |-> Undefined,
   acknowledged_by |-> Undefined]

\* a fault rule that fires on any truthy flag instead of on 1
FaultAlertsTruthy(data, ms) ==
  IF Truthy(data.sensor_fault)
  THEN <<Alert("fault", "sensor_fault", "critical", data, Undefined,
               data.sensor_reading, ms)>>
  ELSE <<>>

\* the sensor-fault rule: if (data.sensor_fault === 1)
FaultAlerts(data, ms) ==
  IF data.sensor_fault = Num(1 * Scale)
  THEN <<Alert("fault", "sensor_fault", "critical", data, Undefined,
               data.sensor_reading, ms)>>
  ELSE <<>>

\* a cascade whose comparisons are strict
ThresholdAlertsStrict(data, ms) ==
  LET sensorReading == Or(parseFloat(data.sensor_reading), Num(0))
      a1Level == Or(parseFloat(data.a1_level), Num(250 * Scale))
      a2Level == Or(parseFloat(data.a2_level), Num(500 * Scale))
      a3Level == Or(parseFloat(data.a3_level), Num(1000 * Scale))
      Gt(x, y) == Ge(x, y) /\ x # y
  IN  IF Gt(sensorReading, a3Level)
      THEN <<Alert("alarm3", "alarm_level_3", "critical", data, a3Level, sensorReading, ms)>>
      ELSE IF Gt(sensorReading, a2Level)
      THEN <<Alert("alarm2", "alarm_level_2", "high", data, a2Level, sensorReading, ms)>>
      ELSE IF Gt(sensorReading, a1Level)
      THEN <<Alert("alarm1", "alarm_level_1", "warning", data, a1Level, sensorReading, ms)>>
      ELSE <<>>

\* the threshold cascade on parseFloat(x) || default, highest level first
ThresholdAlerts(data, ms) ==
  LET sensorReading == Or(parseFloat(data.sensor_reading), Num(0))
      a1Level == Or(parseFloat(data.a1_level), Num(250 * Scale))
      a2Level == Or(parseFloat(data.a2_level), Num(500 * Scale))
      a3Level == Or(parseFloat(data.a3_level), Num(1000 * Scale))
  IN  IF Ge(sensorReading, a3Level)
      THEN <<Alert("alarm3", "alarm_level_3", "critical", data, a3Level, sensorReading, ms)>>
      ELSE IF Ge(sensorReading, a2Level)
      THEN <<Alert("alarm2", "alarm_level_2", "high", data, a2Level, sensorReading, ms)>>
      ELSE IF Ge(sensorReading, a1Level)
      THEN <<Alert("alarm1", "alarm_level_1", "warning", data, a1Level, sensorReading, ms)>>
      ELSE <<>>

\* the alerts array returned: the fault alert is pushed first
generateSubtronicsAlerts(data, ms) == FaultAlerts(data, ms) \o ThresholdAlerts(data, ms)

\* new Date(iso).getTime(): the inverse of toISOString on the clock's range
DateOf(iso) == CHOOSE ms \in 0..(MaxClock + 1) : toISOString(ms) = iso

\* a log entry filed under the alert's type instead of its device
LogEntryByType(deviceId, alarmData) ==
  [device_id |-> alarmData.type,
   serial_number |-> alarmData.serial_number,
   alarm_type |-> alarmData.type,
   severity |-> alarmData.severity,
   threshold |-> alarmData.threshold,
   current_value |-> alarmData.current_value,
   timestamp |-> DateOf(alarmData.timestamp),
   acknowledged |-> FALSE,
   acknowledged_at |-> Null,
   acknowledged_by |-> Null]

\* the logEntry literal of logAlarmEvent (the random log id is left out)
LogEntry(deviceId, alarmData) ==
  [device_id |-> deviceId,
   serial_number |-> alarmData.serial_number,
   alarm_type |-> alarmData.type,
   severity |-> alarmData.severity,
   threshold |-> alarmData.threshold,
   current_value |-> alarmData.current_value,
   timestamp |-> DateOf(alarmData.timestamp),
   acknowledged |-> FALSE,
   acknowledged_at |-> Null,
   acknowledged_by |-> Null]

LogCap == 1000

\* the in-memory branch: push, then shift once the cap is exceeded
PushCapped(logs, deviceId, entry) ==
  LET deviceLogs == IF deviceId \in DOMAIN logs THEN logs[deviceId] ELSE <<>>
      pushed == Append(deviceLogs, entry)
  IN  MapSet(logs, deviceId, IF Len(pushed) > LogCap THEN Tail(pushed) ELSE pushed)

\* a catch branch that logs the error and keeps no entry
PushNothing(logs, deviceId, entry) == logs

\* the catch branch: push without the cap
PushUncapped(logs, deviceId, entry) ==
  LET deviceLogs == IF deviceId \in DOMAIN logs THEN logs[deviceId] ELSE <<>>
  IN  MapSet(logs, deviceId, Append(deviceLogs, entry))

\* a logAlarmEvent without the in-memory branch: it awaits the durable write
\* when the store is connected and does nothing otherwise
logAlarmEventsDurableOnly(st, connected, deviceId, alerts) ==
  IF connected
  THEN [logs |-> st.logs,
        pending |-> st.pending \o [i \in 1..Len(alerts) |-> LogEntry(deviceId, alerts[i])]]
  ELSE st

\* logAlarmEvent up to its first await, for each alert in turn: with the store
\* connected the create call is started and left pending, otherwise the entry
\* goes to memory.  st = [logs, pending]
RECURSIVE logAlarmEvents(_, _, _, _)
logAlarmEvents(st, connected, deviceId, alerts) ==
  IF alerts = <<>> THEN st
  ELSE
    LET entry == LogEntry(deviceId, Head(alerts))
        st1 == IF connected
               THEN [logs |-> st.logs, pending |-> Append(st.pending, entry)]
               ELSE [logs |-> PushCapped(st.logs, deviceId, entry), pending |-> st.pending]
    IN  logAlarmEvents(st1, connected, deviceId, Tail(alerts))

----------------------------------------------------------------------------
(* Inputs of the state machine *)

Clients == {"c1", "c2"}
DeviceIds == {"A", "A_alerts"}
Callers == {Str("alice"), Str("bob")}

\* `${deviceId}_alerts`
AlertsKey(deviceId) == deviceId \o "_alerts"

Payload(serial, reading, fault) ==
  [EmptyObject EXCEPT !.serial = serial,
                      !.Parameters = [EmptyParams EXCEPT !.liveSp = reading,
                                                         !.fault = fault]]

\* JSON objects a device or a tester sends
Payloads ==
  { Payload(Str("A"), Num(1200 * Scale), Undefined),
    Payload(Str("A"), Num(100 * Scale), Undefined),
    Payload(Str("A_alerts"), Num(600 * Scale), Undefined) }

\* a JSON object whose "Unit of Measurement" is null
NullUnitPayload ==
  [Payload(Str("A"), Num(1200 * Scale), Undefined) EXCEPT !.unit = Null]

\* broker messages: ok says whether the bytes are JSON, value is what
\* JSON.parse returns for them
WireMessages ==
  {[ok |-> TRUE, value |-> p] : p \in Payloads}
    \cup {[ok |-> TRUE, value |-> Null],
          [ok |-> TRUE, value |-> NullUnitPayload],
          [ok |-> FALSE, value |-> Undefined]}

----------------------------------------------------------------------------
(* Socket.IO fan-out *)

\* the members of room `device:${deviceId}`
RoomOf(rm, deviceId) == IF deviceId \in DOMAIN rm THEN rm[deviceId] ELSE {}

\* io.emit in place of io.to(room).emit: every connected socket is sent it
DataEventToAll(deviceId, data, ms, n, members) ==
  [event |-> "device:data", deviceId |-> deviceId, data |-> data,
   timestamp |-> toISOString(ms), msg |-> n, to |-> sockets]

\* io.to(`device:${deviceId}`).emit('device:data', ...): to is the set of
\* sockets in the room at the call, each of which is sent the event once
DataEvent(deviceId, data, ms, n, members) ==
  [event |-> "device:data", deviceId |-> deviceId, data |-> data,
   timestamp |-> toISOString(ms), msg |-> n, to |-> members]

\* io.to(`device:${deviceId}`).emit('device:alerts', ...)
AlertsEvent(deviceId, alerts, n, members) ==
  [event |-> "device:alerts", deviceId |-> deviceId, alerts |-> alerts,
   msg |-> n, to |-> members]

\* socket.emit('device:data', {deviceId, data}) of subscribe:device
SnapshotEvent(deviceId, data, c) ==
  [event |-> "device:data", deviceId |-> deviceId, data |-> data,
   timestamp |-> Undefined, msg |-> 0, to |-> {c}]

\* what the last handler sent to socket c, in order
Inbox(c) == SelectSeq(emitted, LAMBDA e : c \in e.to)

----------------------------------------------------------------------------
(* The pipeline shared by the broker handler and the test endpoint, from   *)
(* the stored record on.  st = [data, logs, pending]; n is the history     *)
(* number of the run, out the events it emits.  threw tells that the       *)
(* spread of a stored value that is no array raised a TypeError after the  *)
(* record was stored, the data event emitted and the alarm log calls made. *)

\* a store that merges: a device that has a record keeps it
StoreRecordKeep(m, deviceId, normalized) ==
  IF deviceId \in DOMAIN m THEN m ELSE MapSet(m, deviceId, normalized)

\* subtronicsData.set(deviceId, normalized)
StoreRecord(m, deviceId, normalized) == MapSet(m, deviceId, normalized)

\* the alerts emit placed ahead of the data emit
EmitOrderAlertsFirst(dataEv, alertsEvs) == alertsEvs \o <<dataEv>>

\* the emit of the data event, and the emit of the alerts event when the
\* alert list could be stored: the order of the events of one run
EmitOrder(dataEv, alertsEvs) == <<dataEv>> \o alertsEvs

\* an append that rebuilds the held alerts as they were generated, without
\* the fields an acknowledge set
AppendAlertsRebuilt(existingAlerts, alerts) ==
  [t |-> "array",
   items |-> [i \in 1..Len(existingAlerts.items) |->
                [existingAlerts.items[i] EXCEPT !.acknowledged_at = Undefined,
                                                !.acknowledged_by = Undefined]]
             \o alerts]

\* [...alerts, ...existingAlerts]: the new batch put in front
AppendAlertsInFront(existingAlerts, alerts) ==
  [t |-> "array", items |-> alerts \o existingAlerts.items]

\* [...existingAlerts, ...alerts]
AppendAlerts(existingAlerts, alerts) ==
  [t |-> "array", items |-> existingAlerts.items \o alerts]

\* a handler that generates the alerts, and with them starts the alarm log
\* writes, before it stores and broadcasts the record
EffectOrderLogFirst(recordFx, logFx, alertFx) == logFx \o recordFx \o alertFx

\* the order of the handler's statements: store and data emit, then
\* generateSubtronicsAlerts with its logAlarmEvent calls, then the alert
\* list write and the alerts emit
EffectOrder(recordFx, logFx, alertFx) == recordFx \o logFx \o alertFx

Pipeline(st, connected, rm, normalized, ms, n) ==
  LET deviceId == normalized.serial_number.s
      data1 == StoreRecord(st.data, deviceId, normalized)
      members == RoomOf(rm, deviceId)
      alerts == generateSubtronicsAlerts(normalized, ms)
      logged == logAlarmEvents([logs |-> st.logs, pending |-> st.pending],
                               connected, deviceId, alerts)
      existingAlerts == MapGetOr(data1, AlertsKey(deviceId), EmptyArray)
      threw == Len(alerts) > 0 /\ existingAlerts.t # "array"
      stored == Len(alerts) > 0 /\ ~threw
      data2 == IF stored
               THEN MapSet(data1, AlertsKey(deviceId), AppendAlerts(existingAlerts, alerts))
               ELSE data1
      emits == EmitOrder(DataEvent(deviceId, normalized, ms, n, members),
                         IF stored THEN <<AlertsEvent(deviceId, alerts, n, members)>>
                                   ELSE <<>>)
      effects == EffectOrder(<<"subtronicsData.set", "emit device:data">>,
                             [i \in 1..Len(alerts) |->
                                IF connected THEN "AlarmLog.create" ELSE "alarmLogs.set"],
                             IF stored THEN <<"alerts.set", "emit device:alerts">>
                                       ELSE <<>>)
  IN  [data |-> data2, logs |-> logged.logs, pending |-> logged.pending,
       out |-> emits, effects |-> effects,
       threw |-> threw, deviceId |-> deviceId, alerts |-> alerts]

----------------------------------------------------------------------------
(* State machine *)

Init ==
  /\ subtronicsData = EmptyMap
  /\ alarmLogs = EmptyMap
  /\ mongoConnected = FALSE
  /\ mongoPending = <<>>
  /\ mongoStore = <<>>
  /\ mqttConnected = FALSE
  /\ loopback = <<>>
  /\ sockets = {}
  /\ rooms = [d \in DeviceIds |-> {}]
  /\ emitted = <<>>
  /\ now = 0
  /\ nMsgs = 0
  /\ nClientOps = 0
  /\ nAcks = 0
  /\ lastMsg = EmptyMap
  /\ lastOp = [op |-> "init"]
  /\ call = [fn |-> "none"]
  /\ subscribed = {}

\* Date.now() advances
Tick ==
  /\ now < MaxClock
  /\ now' = now + 1
  /\ UNCHANGED <<subtronicsData, alarmLogs, mongoConnected, mongoPending, mongoStore,
                 mqttConnected, loopback, sockets, rooms, emitted,
                 nMsgs, nClientOps, nAcks, lastMsg, lastOp, call, subscribed>>

\* mongoose.connect(...).then(() => { mongoConnected = true })
MongoConnected ==
  /\ ~mongoConnected
  /\ mongoConnected' = TRUE
  /\ UNCHANGED <<subtronicsData, alarmLogs, mongoPending, mongoStore,
                 mqttConnected, loopback, sockets, rooms, emitted, now,
                 nMsgs, nClientOps, nAcks, lastMsg, lastOp, call, subscribed>>

RemoveAt(q, i) == [j \in 1..(Len(q) - 1) |-> IF j < i THEN q[j] ELSE q[j + 1]]

\* await AlarmLog.create(logEntry) resolves: the entry is saved
MongoWriteOk ==
  \E i \in 1..Len(mongoPending) :
    /\ mongoStore' = Append(mongoStore, mongoPending[i])
    /\ mongoPending' = RemoveAt(mongoPending, i)
    /\ UNCHANGED <<subtronicsData, alarmLogs, mongoConnected,
                   mqttConnected, loopback, sockets, rooms, emitted, now,
                   nMsgs, nClientOps, nAcks, lastMsg, lastOp, call, subscribed>>

\* await AlarmLog.create(logEntry) rejects: the catch branch of logAlarmEvent
MongoWriteFail ==
  \E i \in 1..Len(mongoPending) :
    /\ alarmLogs' = PushUncapped(alarmLogs, mongoPending[i].device_id, mongoPending[i])
    /\ mongoPending' = RemoveAt(mongoPending, i)
    /\ UNCHANGED <<subtronicsData, mongoConnected, mongoStore,
                   mqttConnected, loopback, sockets, rooms, emitted, now,
                   nMsgs, nClientOps, nAcks, lastMsg, lastOp, call, subscribed>>

\* mqttClient.on('connect') / on('offline'), on('error')
MqttConnect ==
  /\ ~mqttConnected
  /\ mqttConnected' = TRUE
  /\ UNCHANGED <<subtronicsData, alarmLogs, mongoConnected, mongoPending, mongoStore,
                 loopback, sockets, rooms, emitted, now,
                 nMsgs, nClientOps, nAcks, lastMsg, lastOp, call, subscribed>>

MqttOffline ==
  /\ mqttConnected
  /\ mqttConnected' = FALSE
  /\ UNCHANGED <<subtronicsData, alarmLogs, mongoConnected, mongoPending, mongoStore,
                 loopback, sockets, rooms, emitted, now,
                 nMsgs, nClientOps, nAcks, lastMsg, lastOp, call, subscribed>>

\* the state change of one pipeline run on a normalized record
RunPipeline(normalized, wire, op) ==
  LET r == Pipeline([data |-> subtronicsData, logs |-> alarmLogs,
                     pending |-> mongoPending],
                    mongoConnected, rooms, normalized, now, nMsgs + 1)
  IN  /\ subtronicsData' = r.data
      /\ alarmLogs' = r.logs
      /\ mongoPending' = r.pending
      /\ emitted' = r.out
      /\ lastMsg' = MapSet(lastMsg, r.deviceId, [raw |-> wire.value, ms |-> now, n |-> nMsgs + 1])
      /\ lastOp' = [op |-> op, outcome |-> IF r.threw THEN "threw" ELSE "processed",
                    n |-> nMsgs + 1, wire |-> wire, effects |-> r.effects,
                    deviceId |-> r.deviceId, alerts |-> r.alerts,
                    members |-> RoomOf(rooms, r.deviceId)]

\* mqttClient.on('message') for topic SubTronics/data
OnMessage(m) ==
  /\ nMsgs < MaxMsgs
  /\ nMsgs' = nMsgs + 1
  /\ LET normalized == IF m.ok THEN parseSubtronicsPayload(m.value, now) ELSE Null
     IN  IF normalized = Null
         THEN /\ lastOp' = [op |-> "mqtt", outcome |-> "dropped", n |-> nMsgs + 1,
                            wire |-> m]
              /\ emitted' = <<>>
              /\ UNCHANGED <<subtronicsData, alarmLogs, mongoPending, lastMsg, call, subscribed>>
         ELSE RunPipeline(normalized, m, "mqtt")
  /\ UNCHANGED <<mongoConnected, mongoStore, mqttConnected, sockets, rooms, now,
                 nClientOps, nAcks, call, subscribed>>

\* a device publishes on the topic
MqttMessage ==
  \E m \in WireMessages :
    /\ OnMessage(m)
    /\ UNCHANGED loopback

\* the broker delivers the gateway's own publication back to it
MqttLoopback ==
  /\ loopback # <<>>
  /\ OnMessage([ok |-> TRUE, value |-> Head(loopback)])
  /\ loopback' = Tail(loopback)

\* POST /test/subtronics/:deviceId
TestEndpoint ==
  \E body \in Payloads :
    /\ nMsgs < MaxMsgs
    /\ nMsgs' = nMsgs + 1
    /\ LET normalized == parseSubtronicsPayload(body, now)
       IN  IF normalized = Null
           THEN /\ lastOp' = [op |-> "test", outcome |-> "dropped", n |-> nMsgs + 1,
                              wire |-> [ok |-> TRUE, value |-> body]]
                /\ emitted' = <<>>
                /\ UNCHANGED <<subtronicsData, alarmLogs, mongoPending, lastMsg, call, subscribed>>
           ELSE RunPipeline(normalized, [ok |-> TRUE, value |-> body], "test")
    /\ loopback' = IF mqttConnected THEN Append(loopback, body) ELSE loopback
    /\ UNCHANGED <<mongoConnected, mongoStore, mqttConnected, sockets, rooms, now,
                   nClientOps, nAcks, call, subscribed>>


\* io.on('connection')
Connect ==
  \E c \in Clients \ sockets :
    /\ sockets' = sockets \cup {c}
    /\ UNCHANGED <<subtronicsData, alarmLogs, mongoConnected, mongoPending, mongoStore,
                   mqttConnected, loopback, rooms, emitted, now,
                   nMsgs, nClientOps, nAcks, lastMsg, lastOp, call, subscribed>>

\* what Socket.IO does with the rooms when a socket disconnects: the socket
\* leaves every room it joined
LeaveAll(rm, c) == [d \in DOMAIN rm |-> rm[d] \ {c}]

\* socket.on('disconnect'): Socket.IO takes the socket out of every room
Disconnect ==
  \E c \in sockets :
    /\ sockets' = sockets \ {c}
    /\ rooms' = LeaveAll(rooms, c)
    /\ subscribed' = {p \in subscribed : p[1] # c}
    /\ UNCHANGED <<subtronicsData, alarmLogs, mongoConnected, mongoPending, mongoStore,
                   mqttConnected, loopback, emitted, now,
                   nMsgs, nClientOps, nAcks, lastMsg, lastOp, call>>

\* socket.join(`device:${deviceId}`)
Join(rm, c, deviceId) == [rm EXCEPT ![deviceId] = @ \cup {c}]

\* socket.on('subscribe:device'): join, then the snapshot if the map has the key
Subscribe ==
  \E c \in sockets, deviceId \in DeviceIds :
    /\ nClientOps < MaxClientOps
    /\ nClientOps' = nClientOps + 1
    /\ rooms' = Join(rooms, c, deviceId)
    /\ subscribed' = subscribed \cup {<<c, deviceId>>}
    /\ IF deviceId \in DOMAIN subtronicsData
       THEN emitted' = <<SnapshotEvent(deviceId, subtronicsData[deviceId], c)>>
       ELSE emitted' = <<>>
    /\ lastOp' = [op |-> "subscribe", client |-> c, deviceId |-> deviceId]
    /\ UNCHANGED <<subtronicsData, alarmLogs, mongoConnected, mongoPending, mongoStore,
                   mqttConnected, loopback, sockets, now, nMsgs, nAcks, lastMsg, call>>

\* a handler that logs the unsubscribe and leaves no room
LeaveNothing(rm, c, deviceId) == rm

\* socket.leave(`device:${deviceId}`)
Leave(rm, c, deviceId) == [rm EXCEPT ![deviceId] = @ \ {c}]

\* socket.on('unsubscribe:device')
Unsubscribe ==
  \E c \in sockets, deviceId \in DeviceIds :
    /\ <<c, deviceId>> \in subscribed
    /\ rooms' = Leave(rooms, c, deviceId)
    /\ subscribed' = subscribed \ {<<c, deviceId>>}
    /\ UNCHANGED <<subtronicsData, alarmLogs, mongoConnected, mongoPending, mongoStore,
                   mqttConnected, loopback, sockets, emitted, now,
                   nMsgs, nClientOps, nAcks, lastMsg, lastOp, call>>

\* the mockData literal of GET .../telemetry/latest
MockData(ms) ==
  [t |-> "record",
   serial_number |-> Str("OTSM-0114"),
   timestamp |-> Str("D" \o ToString(ms)),
   unit |-> Str("ppm"),
   sensor_reading |-> Num(0),
   offset |-> Num(0),
   alarm_status |-> "NORMAL",
   a1_level |-> Num(250 * Scale),
   a2_level |-> Num(500 * Scale),
   a3_level |-> Num(1000 * Scale),
   alarm1_led |-> Num(0),
   alarm2_led |-> Num(0),
   alarm3_led |-> Num(0),
   sensor_fault |-> Num(0),
   raw_message |-> Undefined,
   processed_at |-> toISOString(ms)]

\* GET /devices/:deviceId/subtronics/telemetry/latest: the stored value is
\* sent, and where the map has no such key the mock is stored and sent
GetLatest ==
  \E deviceId \in DeviceIds :
    /\ IF deviceId \in DOMAIN subtronicsData
       THEN UNCHANGED subtronicsData
       ELSE subtronicsData' = MapSet(subtronicsData, deviceId, MockData(now))
    /\ UNCHANGED <<alarmLogs, mongoConnected, mongoPending, mongoStore,
                   mqttConnected, loopback, sockets, rooms, emitted, now,
                   nMsgs, nClientOps, nAcks, lastMsg, lastOp, call, subscribed>>

\* the body GET /devices/:deviceId/subtronics/alerts answers with
ReadAlerts(deviceId) == MapGetOr(subtronicsData, AlertsKey(deviceId), EmptyArray)

\* GET /devices/:deviceId/subtronics/alerts: a read
GetAlerts ==
  \E deviceId \in DeviceIds :
    UNCHANGED vars

\* the alert ids a caller can name: those of any stored list, and one of none
StoredIds ==
  UNION {{subtronicsData[k].items[i].id : i \in 1..Len(subtronicsData[k].items)} :
           k \in {x \in DOMAIN subtronicsData : subtronicsData[x].t = "array"}}

\* alerts[alertIndex].acknowledged_at = ...; alerts[alertIndex].acknowledged_by = ...
MarkAcknowledged(alert, at, by) ==
  [alert EXCEPT !.acknowledged_at = at, !.acknowledged_by = by]

\* POST /devices/:deviceId/subtronics/alerts/:alertId/acknowledge.  A stored
\* value that is no array has no findIndex: the TypeError reaches Express,
\* which answers 500
Acknowledge ==
  \E deviceId \in DeviceIds, alertId \in StoredIds \cup {"none"}, by \in Callers :
    /\ nAcks < MaxAcks
    /\ nAcks' = nAcks + 1
    /\ LET alerts == MapGetOr(subtronicsData, AlertsKey(deviceId), EmptyArray)
           alertIndex == IF alerts.t = "array" THEN findIndex(alerts.items, alertId) ELSE 0
           status == IF alerts.t # "array" THEN 500
                     ELSE IF alertIndex # 0 THEN 200 ELSE 404
       IN  /\ IF status = 200
              THEN subtronicsData' =
                     MapSet(subtronicsData, AlertsKey(deviceId),
                            [alerts EXCEPT !.items[alertIndex] =
                               MarkAcknowledged(@, toISOString(now), by)])
              ELSE UNCHANGED subtronicsData
           /\ lastOp' = [op |-> "ack", status |-> status, deviceId |-> deviceId,
                         alertId |-> alertId, by |-> by, at |-> toISOString(now),
                         index |-> alertIndex]
    /\ emitted' = <<>>
    /\ UNCHANGED <<alarmLogs, mongoConnected, mongoPending, mongoStore,
                   mqttConnected, loopback, sockets, rooms, now,
                   nMsgs, nClientOps, lastMsg, call, subscribed>>

Next ==
  \/ Tick
  \/ MongoConnected
  \/ MongoWriteOk
  \/ MongoWriteFail
  \/ MqttConnect
  \/ MqttOffline
  \/ MqttMessage
  \/ MqttLoopback
  \/ TestEndpoint
  \/ Connect
  \/ Disconnect
  \/ Subscribe
  \/ Unsubscribe
  \/ GetLatest
  \/ GetAlerts
  \/ Acknowledge

Spec == Init /\ [][Next]_vars

----------------------------------------------------------------------------
(* Slices of the state machine.  Each keeps every handler that writes the  *)
(* variables its properties read; what it leaves out changes only          *)
(* variables that those handlers never read.                               *)

\* the device state store: subtronicsData and the clock.  The pipeline's
\* writes to it do not depend on rooms, sockets or the durable store, and a
\* looped-back publication is one of the WireMessages
NextStore ==
  \/ Tick
  \/ MqttMessage
  \/ TestEndpoint
  \/ GetLatest
  \/ GetAlerts
  \/ Acknowledge

SpecStore == Init /\ [][NextStore]_vars

\* the fan-out: rooms, sockets and the emits, with the writers of the map
\* keys that the pipeline and the snapshot read (acknowledge rewrites an
\* alert list as an alert list, which changes no emit)
NextFanout ==
  \/ MqttMessage
  \/ TestEndpoint
  \/ GetLatest
  \/ Connect
  \/ Disconnect
  \/ Subscribe
  \/ Unsubscribe

SpecFanout == Init /\ [][NextFanout]_vars

\* the test endpoint with the broker connected: the gateway is subscribed to
\* the topic it publishes the test payload on, so the broker delivers the
\* publication back to its message handler
NextLoopback ==
  \/ MqttConnect
  \/ MqttOffline
  \/ TestEndpoint
  \/ MqttLoopback
  \/ Connect
  \/ Subscribe

SpecLoopback == Init /\ [][NextLoopback]_vars

----------------------------------------------------------------------------
(* The normaliser and the rule engine on their own: Init draws a payload,  *)
(* Normalize applies parseSubtronicsPayload, Evaluate applies              *)
(* generateSubtronicsAlerts to the record.                                 *)

RulePayload(reading, fault, levels) ==
  [EmptyObject EXCEPT
     !.serial = Str("A"),
     !.Parameters = [EmptyParams EXCEPT !.liveSp = reading, !.fault = fault,
                                        !.a1 = levels[1], !.a2 = levels[2],
                                        !.a3 = levels[3]]]

\* readings: a text that is no number, 0, 249.99, 250, 500, 999.99, 1000, 1200
RuleReadings ==
  {Str("n/a"), Num(0), Num(250 * Scale - 1), Num(250 * Scale), Num(500 * Scale),
   Num(1000 * Scale - 1), Num(1000 * Scale), Num(1200 * Scale)}

RuleFaults == {Undefined, Num(0), Num(1 * Scale), Num(2 * Scale)}

\* levels: absent, the defaults spelled out, other ascending levels, a
\* negative first level, zeros
RuleLevels ==
  { <<Undefined, Undefined, Undefined>>,
    <<Num(250 * Scale), Num(500 * Scale), Num(1000 * Scale)>>,
    <<Num(100 * Scale), Num(200 * Scale), Num(300 * Scale)>>,
    <<Num(0 - 5 * Scale), Num(500 * Scale), Num(1000 * Scale)>>,
    <<Num(0), Num(0), Num(0)>> }

RulePayloads ==
  {RulePayload(r, f, l) : r \in RuleReadings, f \in RuleFaults, l \in RuleLevels}

InitRules ==
  /\ subtronicsData = EmptyMap
  /\ alarmLogs = EmptyMap
  /\ mongoConnected = FALSE
  /\ mongoPending = <<>>
  /\ mongoStore = <<>>
  /\ mqttConnected = FALSE
  /\ loopback = <<>>
  /\ sockets = {}
  /\ rooms = [d \in DeviceIds |-> {}]
  /\ emitted = <<>>
  /\ now = 0
  /\ nMsgs = 0
  /\ nClientOps = 0
  /\ nAcks = 0
  /\ lastMsg = EmptyMap
  /\ lastOp = [op |-> "init"]
  /\ call \in {[fn |-> "input", raw |-> p] : p \in RulePayloads}
  /\ subscribed = {}

Normalize ==
  /\ call.fn = "input"
  /\ call' = [fn |-> "parsed", raw |-> call.raw,
              rec |-> parseSubtronicsPayload(call.raw, now)]
  /\ UNCHANGED <<subtronicsData, alarmLogs, mongoConnected, mongoPending, mongoStore,
                 mqttConnected, loopback, sockets, rooms, emitted, now,
                 nMsgs, nClientOps, nAcks, lastMsg, lastOp, subscribed>>

Evaluate ==
  /\ call.fn = "parsed"
  /\ call.rec # Null
  /\ call' = [fn |-> "evaluated", raw |-> call.raw, rec |-> call.rec,
              alerts |-> generateSubtronicsAlerts(call.rec, now)]
  /\ UNCHANGED <<subtronicsData, alarmLogs, mongoConnected, mongoPending, mongoStore,
                 mqttConnected, loopback, sockets, rooms, emitted, now,
                 nMsgs, nClientOps, nAcks, lastMsg, lastOp, subscribed>>

NextRules ==
  \/ Normalize
  \/ Evaluate

SpecRules == InitRules /\ [][NextRules]_vars

----------------------------------------------------------------------------
(* The alarm log at its cap.  The in-memory log of device A starts with     *)
(* the entries of earlier fallback writes, one short of the cap or at the  *)
(* cap, as LogCap - 1 or more alarms logged while the durable store was    *)
(* not connected leave it.                                                 *)

\* the i-th of the earlier entries: logged in one of two past milliseconds,
\* the older half in the earlier one, each with a reading of its own
PastEntry(i) ==
  [device_id |-> "A",
   serial_number |-> Str("A"),
   alarm_type |-> "alarm_level_3",
   severity |-> "critical",
   threshold |-> Num(1000 * Scale),
   current_value |-> Num((1000 + i) * Scale),
   timestamp |-> IF 2 * i <= LogCap THEN 0 - 2 ELSE 0 - 1,
   acknowledged |-> FALSE,
   acknowledged_at |-> Null,
   acknowledged_by |-> Null]

PastLog(n) == [i \in 1..n |-> PastEntry(i)]

\* req.query of the alarm-log route: each filter is undefined when absent
Queries ==
  {[start_date |-> Undefined, end_date |-> Undefined,
    alarm_type |-> Undefined, severity |-> sev] : sev \in {Undefined, Str("critical")}}

\* whether logs still is the stored array when logs.sort is called: each
\* filter that is given replaces logs by a new array (logs.filter)
SortsStoredArray(q) ==
  /\ ~Truthy(q.start_date) /\ ~Truthy(q.end_date)
  /\ ~Truthy(q.alarm_type) /\ ~Truthy(q.severity)

\* logs.sort((a, b) => new Date(b.timestamp) - new Date(a.timestamp)):
\* Array.prototype.sort is stable, so entries of one timestamp keep their
\* order, and the timestamps come newest first
RECURSIVE SortNewestFirst(_)
SortNewestFirst(logs) ==
  IF logs = <<>> THEN <<>>
  ELSE LET newest == CHOOSE t \in {logs[i].timestamp : i \in 1..Len(logs)} :
                       \A i \in 1..Len(logs) : logs[i].timestamp <= t
       IN  SelectSeq(logs, LAMBDA log : log.timestamp = newest)
             \o SortNewestFirst(SelectSeq(logs, LAMBDA log : log.timestamp # newest))

\* GET /devices/:deviceId/alarm-logs, in-memory branch: without a filter the
\* array that is sorted is the one the map holds
GetAlarmLogs ==
  \E deviceId \in DeviceIds, q \in Queries :
    /\ ~mongoConnected
    /\ IF deviceId \in DOMAIN alarmLogs /\ SortsStoredArray(q)
       THEN alarmLogs' = MapSet(alarmLogs, deviceId, SortNewestFirst(alarmLogs[deviceId]))
       ELSE UNCHANGED alarmLogs
    /\ UNCHANGED <<subtronicsData, mongoConnected, mongoPending, mongoStore,
                   mqttConnected, loopback, sockets, rooms, emitted, now,
                   nMsgs, nClientOps, nAcks, lastMsg, lastOp, call, subscribed>>

InitLog ==
  /\ subtronicsData = EmptyMap
  /\ alarmLogs \in {MapSet(EmptyMap, "A", PastLog(n)) : n \in {LogCap - 1, LogCap}}
  /\ mongoConnected = FALSE
  /\ mongoPending = <<>>
  /\ mongoStore = <<>>
  /\ mqttConnected = FALSE
  /\ loopback = <<>>
  /\ sockets = {}
  /\ rooms = [d \in DeviceIds |-> {}]
  /\ emitted = <<>>
  /\ now = 0
  /\ nMsgs = 0
  /\ nClientOps = 0
  /\ nAcks = 0
  /\ lastMsg = EmptyMap
  /\ lastOp = [op |-> "init"]
  /\ call = [fn |-> "none"]
  /\ subscribed = {}

\* the handlers that write alarmLogs, mongoPending or mongoStore, and the
\* alarm-log query
NextLog ==
  \/ MongoConnected
  \/ MqttMessage
  \/ MongoWriteOk
  \/ MongoWriteFail
  \/ GetAlarmLogs

SpecLog == InitLog /\ [][NextLog]_vars

----------------------------------------------------------------------------
(* Devices that send no serial number.  The broker handler on payloads     *)
(* without "OTSM-2 Serial Number", or with an empty one, that differ in    *)
(* reading and alarm levels as the payloads of different devices do.       *)

UnknownPayload(serial, reading, levels) ==
  [EmptyObject EXCEPT
     !.serial = serial,
     !.Parameters = [EmptyParams EXCEPT !.liveSp = reading,
                                        !.a1 = levels[1], !.a2 = levels[2],
                                        !.a3 = levels[3]]]

UnknownPayloads ==
  { UnknownPayload(Undefined, Num(1200 * Scale), <<Undefined, Undefined, Undefined>>),
    UnknownPayload(Undefined, Num(600 * Scale), <<Undefined, Undefined, Undefined>>),
    UnknownPayload(Undefined, Num(100 * Scale),
                   <<Num(600 * Scale), Num(300 * Scale), Num(900 * Scale)>>),
    UnknownPayload(Undefined, Num(300 * Scale), <<Undefined, Undefined, Undefined>>),
    UnknownPayload(Str(""), Num(1200 * Scale),
                   <<Num(300 * Scale), Num(600 * Scale), Num(900 * Scale)>>) }

\* a device without serial number publishes on the topic
UnknownMessage ==
  \E p \in UnknownPayloads :
    /\ OnMessage([ok |-> TRUE, value |-> p])
    /\ UNCHANGED loopback

NextUnknown ==
  \/ Tick
  \/ UnknownMessage

SpecUnknown == Init /\ [][NextUnknown]_vars

----------------------------------------------------------------------------
(* The alarm-log queries over the in-memory log.  The log of device A      *)
(* starts with up to MaxHeld entries of past alarms, that of A_alerts with *)
(* none or one; one query is made, which leaves its request and its        *)
(* response body in call.                                                  *)

MaxHeld == 3

\* the milliseconds in which the past alarms were logged
PastTimes == {0 - 2, 0 - 1}

\* an entry of the in-memory log as logAlarmEvent builds it
HeldEntry(deviceId, type, severity, ms) ==
  [device_id |-> deviceId,
   serial_number |-> Str(deviceId),
   alarm_type |-> type,
   severity |-> severity,
   threshold |-> Num(1000 * Scale),
   current_value |-> Num(1200 * Scale),
   timestamp |-> ms,
   acknowledged |-> FALSE,
   acknowledged_at |-> Null,
   acknowledged_by |-> Null]

HeldEntries(deviceId) ==
  {HeldEntry(deviceId, k[1], k[2], ms) :
     k \in {<<"alarm_level_3", "critical">>, <<"alarm_level_2", "high">>},
     ms \in PastTimes}

\* logs as pushes leave them, oldest first, or as the sort of an earlier
\* query without filter left the stored array, newest first
HeldLogs(deviceId, n) ==
  UNION {{log \in [1..k -> HeldEntries(deviceId)] :
            \/ \A i \in 1..(k - 1) : log[i].timestamp <= log[i + 1].timestamp
            \/ \A i \in 1..(k - 1) : log[i].timestamp >= log[i + 1].timestamp} :
         k \in 0..n}

\* new Date(x).getTime() of a query parameter: the inverse of toISOString on
\* the times of the log, NaN for a text that is no date
getTime(x) ==
  IF x.t = "string" /\ \E ms \in PastTimes : toISOString(ms) = x
  THEN Num(CHOOSE ms \in PastTimes : toISOString(ms) = x)
  ELSE NaN

\* parseInt(limit) of the query parameter: the default 100 is a number, a
\* given limit is the text of the query string
ParseLimit(limit) ==
  IF limit.t = "number" THEN limit
  ELSE IF limit.t = "string" /\ \E n \in 0..9 : ToString(n) = limit.s
  THEN Num(CHOOSE n \in 0..9 : ToString(n) = limit.s)
  ELSE NaN

\* const { start_date, end_date, alarm_type, severity, device_id, limit = 100 }
\*   = req.query
FilterQueries ==
  {[start_date |-> sd, end_date |-> ed, alarm_type |-> ty, severity |-> sev,
    device_id |-> dev, limit |-> IF lim = Undefined THEN Num(100) ELSE lim] :
     sd \in {Undefined, toISOString(0 - 1)},
     ed \in {Undefined, toISOString(0 - 2)},
     ty \in {Undefined, Str("alarm_level_3")},
     sev \in {Undefined, Str("critical")},
     dev \in {Undefined, Str("A")},
     lim \in {Undefined, Str("1"), Str("all")}}

\* the chain of logs.filter calls: a filter is applied when its parameter
\* is truthy
ApplyFilters(logs, q) ==
  LET byStart == IF Truthy(q.start_date)
                 THEN SelectSeq(logs, LAMBDA log : Ge(Num(log.timestamp), getTime(q.start_date)))
                 ELSE logs
      byEnd == IF Truthy(q.end_date)
               THEN SelectSeq(byStart, LAMBDA log : Ge(getTime(q.end_date), Num(log.timestamp)))
               ELSE byStart
      byType == IF Truthy(q.alarm_type)
                THEN SelectSeq(byEnd, LAMBDA log : Str(log.alarm_type) = q.alarm_type)
                ELSE byEnd
  IN  IF Truthy(q.severity)
      THEN SelectSeq(byType, LAMBDA log : Str(log.severity) = q.severity)
      ELSE byType

\* a slice that keeps the last entries of the sorted array
SliceFromEnd(logs, limit) ==
  LET n == ParseLimit(limit)
      k == IF n.t = "number" THEN (IF n.v < Len(logs) THEN n.v ELSE Len(logs)) ELSE 0
  IN  SubSeq(logs, Len(logs) - k + 1, Len(logs))

\* logs.slice(0, parseInt(limit)) for a limit that is not negative: NaN
\* counts as 0
Slice(logs, limit) ==
  LET n == ParseLimit(limit)
      k == IF n.t = "number" THEN (IF n.v < Len(logs) THEN n.v ELSE Len(logs)) ELSE 0
  IN  SubSeq(logs, 1, k)

\* GET /devices/:deviceId/alarm-logs, in-memory branch, with its response
QueryDeviceLogs ==
  \E deviceId \in DeviceIds, q \in {x \in FilterQueries : x.device_id = Undefined} :
    /\ ~mongoConnected
    /\ call.fn = "none"
    /\ LET held == IF deviceId \in DOMAIN alarmLogs THEN alarmLogs[deviceId] ELSE <<>>
           logs == SortNewestFirst(ApplyFilters(held, q))
       IN  /\ IF deviceId \in DOMAIN alarmLogs /\ SortsStoredArray(q)
              THEN alarmLogs' = MapSet(alarmLogs, deviceId, logs)
              ELSE UNCHANGED alarmLogs
           /\ call' = [fn |-> "alarm-logs", route |-> "device", deviceId |-> deviceId,
                       q |-> q, held |-> held, logs |-> Slice(logs, q.limit)]
    /\ UNCHANGED <<subtronicsData, mongoConnected, mongoPending, mongoStore,
                   mqttConnected, loopback, sockets, rooms, emitted, now,
                   nMsgs, nClientOps, nAcks, lastMsg, lastOp, subscribed>>

\* the orders in which alarmLogs.entries() can yield the keys
KeyOrders(m) ==
  {order \in [1..Cardinality(DOMAIN m) -> DOMAIN m] :
     \A i, j \in 1..Cardinality(DOMAIN m) : i # j => order[i] # order[j]}

\* allLogs = allLogs.concat(logs) for each entry of the map
RECURSIVE ConcatAll(_, _)
ConcatAll(m, order) ==
  IF order = <<>> THEN <<>> ELSE m[Head(order)] \o ConcatAll(m, Tail(order))

\* GET /alarm-logs, in-memory branch, with its response: the array that is
\* filtered and sorted is a new one
QueryAllLogs ==
  \E order \in KeyOrders(alarmLogs), q \in FilterQueries :
    /\ ~mongoConnected
    /\ call.fn = "none"
    /\ LET allLogs == ConcatAll(alarmLogs, order)
           byDevice == IF Truthy(q.device_id)
                       THEN SelectSeq(allLogs, LAMBDA log : Str(log.device_id) = q.device_id)
                       ELSE allLogs
           logs == SortNewestFirst(ApplyFilters(byDevice, q))
       IN  call' = [fn |-> "alarm-logs", route |-> "all", deviceId |-> "",
                    q |-> q, held |-> allLogs, logs |-> Slice(logs, q.limit)]
    /\ UNCHANGED <<subtronicsData, alarmLogs, mongoConnected, mongoPending, mongoStore,
                   mqttConnected, loopback, sockets, rooms, emitted, now,
                   nMsgs, nClientOps, nAcks, lastMsg, lastOp, subscribed>>

InitQuery ==
  /\ subtronicsData = EmptyMap
  /\ alarmLogs \in {MapSet(MapSet(EmptyMap, "A", a), "A_alerts", b) :
                      a \in HeldLogs("A", MaxHeld),
                      b \in {<<>>, <<HeldEntry("A_alerts", "alarm_level_3",
                                                "critical", 0 - 1)>>}}
  /\ mongoConnected = FALSE
  /\ mongoPending = <<>>
  /\ mongoStore = <<>>
  /\ mqttConnected = FALSE
  /\ loopback = <<>>
  /\ sockets = {}
  /\ rooms = [d \in DeviceIds |-> {}]
  /\ emitted = <<>>
  /\ now = 0
  /\ nMsgs = 0
  /\ nClientOps = 0
  /\ nAcks = 0
  /\ lastMsg = EmptyMap
  /\ lastOp = [op |-> "init"]
  /\ call = [fn |-> "none"]
  /\ subscribed = {}

NextQuery ==
  \/ QueryDeviceLogs
  \/ QueryAllLogs

SpecQuery == InitQuery /\ [][NextQuery]_vars

----------------------------------------------------------------------------
(* The alarm history across the two places it is kept in: the handlers     *)
(* that write the in-memory log and the durable store, from an empty log,  *)
(* and the per-device query without filter in both of its branches.        *)

\* AlarmLog.find({device_id}).sort({timestamp: -1}).limit(100) on the
\* documents of the durable store
FindDurable(deviceId) ==
  Slice(SortNewestFirst(SelectSeq(mongoStore, LAMBDA log : log.device_id = deviceId)),
        Num(100))

\* GET /devices/:deviceId/alarm-logs without query parameters: the durable
\* store is asked when it is connected, the in-memory log otherwise
QueryUnfiltered ==
  \E deviceId \in DeviceIds :
    /\ nClientOps < MaxClientOps
    /\ nClientOps' = nClientOps + 1
    /\ LET held == IF deviceId \in DOMAIN alarmLogs THEN alarmLogs[deviceId] ELSE <<>>
           sorted == SortNewestFirst(held)
       IN  IF mongoConnected
           THEN /\ call' = [fn |-> "alarm-logs", deviceId |-> deviceId,
                            from |-> "durable", logs |-> FindDurable(deviceId)]
                /\ UNCHANGED alarmLogs
           ELSE /\ call' = [fn |-> "alarm-logs", deviceId |-> deviceId,
                            from |-> "memory", logs |-> Slice(sorted, Num(100))]
                /\ IF deviceId \in DOMAIN alarmLogs
                   THEN alarmLogs' = MapSet(alarmLogs, deviceId, sorted)
                   ELSE UNCHANGED alarmLogs
    /\ UNCHANGED <<subtronicsData, mongoConnected, mongoPending, mongoStore,
                   mqttConnected, loopback, sockets, rooms, emitted, now,
                   nMsgs, nAcks, lastMsg, lastOp, subscribed>>

NextHistory ==
  \/ MongoConnected
  \/ MqttMessage
  \/ MongoWriteOk
  \/ MongoWriteFail
  \/ QueryUnfiltered

SpecHistory == Init /\ [][NextHistory]_vars

\* every durable write is settled: the promise of AlarmLog.create is
\* fulfilled or rejected at some time
SpecHistoryFair == SpecHistory /\ WF_vars(MongoWriteOk \/ MongoWriteFail)

----------------------------------------------------------------------------
(* The normaliser on the field variants of a payload: Init draws a payload, *)
(* Normalize applies parseSubtronicsPayload to it, NormalizeAgain applies  *)
(* it to the same payload once more, and the clock may advance in between. *)

\* payloads over the places of the primary reading and of the time of the
\* reading: 350.5 under "Live Sensor Readings " (or a text there), 351 under
\* "Live Sensor Readings", 352 under "Sensor Reading", 353 under "Offset"
ReadingPayloads ==
  {[EmptyObject EXCEPT
      !.serial = Str("A"), !.dateTime = dt, !.timestamp = ts, !.sensorReading = sr,
      !.Parameters = [EmptyParams EXCEPT !.liveSp = ls, !.live = lv, !.offset = off]] :
     ls \in {Undefined, Num(350 * Scale + 50), Str("n/a")},
     lv \in {Undefined, Num(351 * Scale)},
     sr \in {Undefined, Num(352 * Scale)},
     off \in {Undefined, Num(353 * Scale)},
     dt \in {Undefined, Str("2026-01-28 11:37:12")},
     ts \in {Undefined, Str("2026-01-28T11:37:12Z")}}

\* payloads over the LED and fault flags, with or without an "Alarm Status"
\* of their own
FlagPayloads ==
  {[EmptyObject EXCEPT
      !.serial = Str("A"), !.alarmStatus = st,
      !.Parameters = [EmptyParams EXCEPT !.led1 = l1, !.led2 = l2, !.led3 = l3,
                                         !.fault = f, !.fault2 = f2]] :
     l1 \in {Undefined, Num(0), Num(1 * Scale), Num(2 * Scale)},
     l2 \in {Undefined, Num(1 * Scale)},
     l3 \in {Undefined, Num(1 * Scale)},
     f \in {Undefined, Num(0), Num(1 * Scale), Num(2 * Scale), Str("on")},
     f2 \in {Undefined, Num(1 * Scale)},
     st \in {Undefined, Str("ALARM"), Str("NORMAL")}}

\* payloads over the three alarm levels
LevelPayloads ==
  {[EmptyObject EXCEPT
      !.serial = Str("A"),
      !.Parameters = [EmptyParams EXCEPT !.a1 = a1, !.a2 = a2, !.a3 = a3]] :
     a1 \in {Undefined, Num(0), Num(300 * Scale), Num(600 * Scale), Str("high")},
     a2 \in {Undefined, Num(0), Num(300 * Scale), Num(600 * Scale), Str("high")},
     a3 \in {Undefined, Num(0), Num(300 * Scale), Num(600 * Scale), Str("high")}}

ParsePayloads == ReadingPayloads \cup FlagPayloads \cup LevelPayloads

InitParse ==
  /\ subtronicsData = EmptyMap
  /\ alarmLogs = EmptyMap
  /\ mongoConnected = FALSE
  /\ mongoPending = <<>>
  /\ mongoStore = <<>>
  /\ mqttConnected = FALSE
  /\ loopback = <<>>
  /\ sockets = {}
  /\ rooms = [d \in DeviceIds |-> {}]
  /\ emitted = <<>>
  /\ now = 0
  /\ nMsgs = 0
  /\ nClientOps = 0
  /\ nAcks = 0
  /\ lastMsg = EmptyMap
  /\ lastOp = [op |-> "init"]
  /\ call \in {[fn |-> "input", raw |-> p] : p \in ParsePayloads}
  /\ subscribed = {}

\* the same raw payload handed to parseSubtronicsPayload a second time
NormalizeAgain ==
  /\ call.fn = "parsed"
  /\ call' = [fn |-> "twice", raw |-> call.raw, rec |-> call.rec,
              rec2 |-> parseSubtronicsPayload(call.raw, now)]
  /\ UNCHANGED <<subtronicsData, alarmLogs, mongoConnected, mongoPending, mongoStore,
                 mqttConnected, loopback, sockets, rooms, emitted, now,
                 nMsgs, nClientOps, nAcks, lastMsg, lastOp, subscribed>>

NextParse ==
  \/ Tick
  \/ Normalize
  \/ NormalizeAgain

SpecParse == InitParse /\ [][NextParse]_vars

----------------------------------------------------------------------------
(* Properties of the rule engine (checked under SpecRules) *)

Types(alerts) == [i \in 1..Len(alerts) |-> alerts[i].type]
ThresholdOnly(alerts) == SelectSeq(alerts, LAMBDA a : a.type # "sensor_fault")
FaultOnly(alerts) == SelectSeq(alerts, LAMBDA a : a.type = "sensor_fault")

\* the threshold alert the cascade calls for, as <<type, severity>>, for a
\* reading r in hundredths, or <<>> for none
Cascade(r, rec) ==
  IF r >= rec.a3_level.v THEN <<"alarm_level_3", "critical">>
  ELSE IF r >= rec.a2_level.v THEN <<"alarm_level_2", "high">>
  ELSE IF r >= rec.a1_level.v THEN <<"alarm_level_1", "warning">>
  ELSE <<>>

MatchesCascade(alerts, expected) ==
  LET thr == ThresholdOnly(alerts)
  IN  /\ Len(thr) <= 1
      /\ expected = <<>> => thr = <<>>
      /\ expected # <<>> =>
           /\ Len(thr) = 1
           /\ <<thr[1].type, thr[1].severity>> = expected

\* C5 as stated: at most one threshold alert, the one of the highest level
\* that sensor_reading >= level breaches, with the record's sensor_reading
\* compared as it is (a reading that is no number breaches nothing).
C5_AsStated ==
  call.fn = "evaluated" =>
    MatchesCascade(call.alerts,
                   IF call.rec.sensor_reading.t = "number"
                   THEN Cascade(call.rec.sensor_reading.v, call.rec)
                   ELSE <<>>)

\* C5 amended: at most one threshold alert, the one of the highest level
\* breached (inclusive), where a sensor_reading that is not a number is
\* compared as 0.
C5_Cascade ==
  call.fn = "evaluated" =>
    MatchesCascade(call.alerts,
                   Cascade(IF call.rec.sensor_reading.t = "number"
                           THEN call.rec.sensor_reading.v ELSE 0,
                           call.rec))

\* C5 witness: the examples of the claim, levels 250/500/1000 with readings
\* 1000 (level 3 only) and 999.99 (level 2), have been evaluated.
C5_Witness ==
  /\ call.fn = "evaluated"
  /\ call.rec.a1_level = Num(250 * Scale)
  /\ call.rec.a2_level = Num(500 * Scale)
  /\ call.rec.a3_level = Num(1000 * Scale)
  /\ call.rec.sensor_fault = Num(0)
  /\ \/ /\ call.rec.sensor_reading = Num(1000 * Scale)
        /\ Types(call.alerts) = <<"alarm_level_3">>
     \/ /\ call.rec.sensor_reading = Num(1000 * Scale - 1)
        /\ Types(call.alerts) = <<"alarm_level_2">>

AllLevelsPositive(rec) ==
  rec.a1_level.v > 0 /\ rec.a2_level.v > 0 /\ rec.a3_level.v > 0

FaultRule(rec, alerts) ==
  /\ rec.sensor_fault = Num(1 * Scale) =>
       /\ Len(FaultOnly(alerts)) = 1
       /\ alerts[1].type = "sensor_fault"
       /\ alerts[1].severity = "critical"
  /\ rec.sensor_fault # Num(1 * Scale) => FaultOnly(alerts) = <<>>

\* C6 as stated: sensor_fault = 1 gives exactly one sensor_fault/critical
\* alert, first in the sequence; any other sensor_fault gives none; and with
\* sensor_fault = 1 and sensor_reading = 0 the result is that one alert only.
C6_AsStated ==
  call.fn = "evaluated" =>
    /\ FaultRule(call.rec, call.alerts)
    /\ (call.rec.sensor_fault = Num(1 * Scale) /\ call.rec.sensor_reading = Num(0)) =>
         Types(call.alerts) = <<"sensor_fault">>

\* C6 amended: as stated, the last part for records whose three levels are
\* all above 0 (a reading of 0 breaches a level that is negative).
C6_FaultFirst ==
  call.fn = "evaluated" =>
    /\ FaultRule(call.rec, call.alerts)
    /\ (/\ call.rec.sensor_fault = Num(1 * Scale)
        /\ call.rec.sensor_reading = Num(0)
        /\ AllLevelsPositive(call.rec)) =>
         Types(call.alerts) = <<"sensor_fault">>

\* C6 witness: a record with sensor_fault = 1 and a breached level has been
\* evaluated, and the fault alert precedes the threshold alert.
C6_Witness ==
  /\ call.fn = "evaluated"
  /\ call.rec.sensor_fault = Num(1 * Scale)
  /\ Types(call.alerts) = <<"sensor_fault", "alarm_level_3">>

----------------------------------------------------------------------------
(* Properties of the broker handler and the fan-out *)

\* positions in emitted of the events of kind ev that message n produced
EventsOf(ev, n) ==
  {i \in 1..Len(emitted) : emitted[i].event = ev /\ emitted[i].msg = n}

\* C1: the alerts event of a message never comes before the data event of
\* that message, and a broker message whose alert batch is recorded has its
\* data event emitted first and its alerts event second.
C1_DataBeforeAlerts ==
  /\ \A i \in 1..Len(emitted) :
       emitted[i].event = "device:alerts" =>
         \E j \in 1..(i - 1) : /\ emitted[j].event = "device:data"
                               /\ emitted[j].msg = emitted[i].msg
                               /\ emitted[j].deviceId = emitted[i].deviceId
  /\ (/\ lastOp.op = "mqtt"
      /\ lastOp.outcome = "processed"
      /\ lastOp.alerts # <<>>) =>
       /\ Len(emitted) = 2
       /\ emitted[1].event = "device:data"
       /\ emitted[2].event = "device:alerts"
       /\ emitted[1].msg = lastOp.n /\ emitted[2].msg = lastOp.n

\* C1 witness: a broker message with an alert has been delivered to a
\* subscriber, data event first.
C1_Witness ==
  /\ lastOp.op = "mqtt"
  /\ lastOp.outcome = "processed"
  /\ lastOp.alerts # <<>>
  /\ \E c \in Clients :
       /\ Len(Inbox(c)) = 2
       /\ Inbox(c)[1].event = "device:data"
       /\ Inbox(c)[2].event = "device:alerts"

\* the live data events of message n that socket c was sent
LiveDataTo(c, n) == {i \in EventsOf("device:data", n) : c \in emitted[i].to}

\* C2: for a normalized broker message, each socket in the device's room at
\* processing time is sent exactly one device:data event, which carries the
\* record of that message, and a socket outside the room is sent none.
C2_ExactlyOnce ==
  (lastOp.op = "mqtt" /\ lastOp.outcome # "dropped") =>
    \A c \in Clients :
      /\ c \in lastOp.members => Cardinality(LiveDataTo(c, lastOp.n)) = 1
      /\ c \notin lastOp.members => LiveDataTo(c, lastOp.n) = {}
      /\ \A i \in LiveDataTo(c, lastOp.n) :
           /\ emitted[i].deviceId = lastOp.deviceId
           /\ emitted[i].data =
                parseSubtronicsPayload(lastOp.wire.value, lastMsg[lastOp.deviceId].ms)

\* C2 witness: a message was processed while one socket was in the room and
\* another connected socket was not.
C2_Witness ==
  /\ lastOp.op = "mqtt"
  /\ lastOp.outcome # "dropped"
  /\ lastOp.members # {}
  /\ sockets \ lastOp.members # {}
  /\ \E c \in lastOp.members : Len(Inbox(c)) >= 1

\* C3: the record held for a serial number is the record normalized from
\* the last processed message of that serial number, whole.
C3_ReplaceNeverMerge ==
  \A serial \in DOMAIN lastMsg :
    /\ serial \in DOMAIN subtronicsData
    /\ subtronicsData[serial] =
         parseSubtronicsPayload(lastMsg[serial].raw, lastMsg[serial].ms)

\* C3 witness: a second message of a serial number, with another reading
\* than the first, has been processed.
C3_Witness ==
  /\ "A" \in DOMAIN lastMsg
  /\ lastMsg["A"].n = 2
  /\ lastOp.op = "mqtt"
  /\ lastOp.deviceId = "A"
  /\ lastOp.alerts = <<>>
  /\ AlertsKey("A") \in DOMAIN subtronicsData
  /\ subtronicsData["A"].sensor_reading = Num(100 * Scale)

\* a broker message that cannot be normalized
CannotNormalize(wire, ms) ==
  \/ ~wire.ok
  \/ wire.value = Null
  \/ parseSubtronicsPayload(wire.value, ms) = Null

\* C4: a step of the broker handler on a message that cannot be normalized
\* leaves the record map with the alert histories in it, the in-memory
\* alarm log and the pending durable writes as they were and emits no
\* event; and the handler takes the next message.
C4_DroppedMessage ==
  /\ [][(/\ nMsgs' = nMsgs + 1
         /\ lastOp'.op = "mqtt"
         /\ CannotNormalize(lastOp'.wire, now)) =>
          /\ subtronicsData' = subtronicsData
          /\ alarmLogs' = alarmLogs
          /\ mongoPending' = mongoPending
          /\ emitted' = <<>>]_vars
  /\ []((/\ lastOp.op = "mqtt"
         /\ lastOp.outcome = "dropped"
         /\ nMsgs < MaxMsgs) => ENABLED MqttMessage)

\* C4 witness: after a message left a record and an alert, a message that is
\* no JSON, or whose normalization fails, has been dropped.
C4_Witness ==
  /\ lastOp.op = "mqtt"
  /\ lastOp.outcome = "dropped"
  /\ lastOp.wire \in {[ok |-> FALSE, value |-> Undefined],
                      [ok |-> TRUE, value |-> NullUnitPayload]}
  /\ AlertsKey("A") \in DOMAIN subtronicsData
  /\ emitted = <<>>

----------------------------------------------------------------------------
(* Properties of the alert histories and of acknowledge *)

\* the keys of the map that hold an alert list
AlertLists == {k \in DOMAIN subtronicsData : subtronicsData[k].t = "array"}

\* C7: no two alerts of one device's alert history have the same id.
C7_UniqueIds ==
  \A k \in AlertLists :
    \A i, j \in 1..Len(subtronicsData[k].items) :
      subtronicsData[k].items[i].id = subtronicsData[k].items[j].id => i = j

\* C8: after a successful acknowledge the alert read back has acknowledged
\* = true, acknowledged_at = the time of the call and acknowledged_by = the
\* caller's name.
C8_AckSetsThreeFields ==
  (lastOp.op = "ack" /\ lastOp.status = 200) =>
    LET alert == ReadAlerts(lastOp.deviceId).items[lastOp.index]
    IN  /\ alert.id = lastOp.alertId
        /\ alert.acknowledged = True
        /\ alert.acknowledged_at = lastOp.at
        /\ alert.acknowledged_by = lastOp.by

\* C9: an acknowledge of an id that device X's own alert list does not hold
\* answers 404.
C9_UnknownIdNotFound ==
  (lastOp.op = "ack" /\ lastOp.index = 0) => lastOp.status = 404

\* C10: once an alert has acknowledged_at set, no step changes its
\* acknowledged_at or acknowledged_by.
C10_AckOnce ==
  [][\A k \in AlertLists :
       \A i \in 1..Len(subtronicsData[k].items) :
         (/\ subtronicsData[k].items[i].acknowledged_at # Undefined
          /\ k \in DOMAIN subtronicsData'
          /\ subtronicsData'[k].t = "array"
          /\ i <= Len(subtronicsData'[k].items)) =>
           /\ subtronicsData'[k].items[i].acknowledged_at =
                subtronicsData[k].items[i].acknowledged_at
           /\ subtronicsData'[k].items[i].acknowledged_by =
                subtronicsData[k].items[i].acknowledged_by]_vars

----------------------------------------------------------------------------
(* Properties of subscribe, unsubscribe and disconnect *)

\* the map holds a canonical record for the device
HasCurrentRecord(deviceId) ==
  /\ deviceId \in DOMAIN subtronicsData
  /\ subtronicsData[deviceId].t = "record"

\* C11: a subscribe to a device that has a current record sends the
\* subscriber exactly one device:data snapshot, carrying that record, within
\* the subscribe step; a subscribe to a device without a current record
\* sends nothing.
C11_SnapshotOnSubscribe ==
  lastOp.op = "subscribe" =>
    IF HasCurrentRecord(lastOp.deviceId)
    THEN emitted = <<SnapshotEvent(lastOp.deviceId,
                                   subtronicsData[lastOp.deviceId],
                                   lastOp.client)>>
    ELSE emitted = <<>>

\* C12: every device:data or device:alerts event that the processing of a
\* message emits reaches only sockets that are connected and subscribed to
\* the device of the event at that moment: none that unsubscribed or
\* disconnected before, none that never subscribed.
C12_NoDeliveryAfterLeave ==
  [][nMsgs' = nMsgs + 1 =>
       \A i \in 1..Len(emitted') :
         \A c \in emitted'[i].to :
           /\ c \in sockets
           /\ <<c, emitted'[i].deviceId>> \in subscribed]_vars

\* C12 witness: after two subscribes of which one is still in force, a
\* message of the device was delivered to the subscriber, and a connected
\* socket that is not subscribed to the device got nothing.
C12_Witness ==
  /\ lastOp.op = "mqtt"
  /\ lastOp.outcome = "processed"
  /\ lastOp.deviceId = "A"
  /\ nClientOps = 2
  /\ Cardinality(subscribed) = 1
  /\ \E c \in Clients : Len(Inbox(c)) >= 1
  /\ \E c \in sockets : <<c, "A">> \notin subscribed /\ Inbox(c) = <<>>

----------------------------------------------------------------------------
(* Properties of the alarm log (checked under SpecLog) *)

\* C13: the in-memory alarm log of a device never holds more than LogCap
\* entries.
C13_LogWithinCap ==
  \A d \in DOMAIN alarmLogs : Len(alarmLogs[d]) <= LogCap

\* the entries of a log that carry timestamp t
CountAt(log, t) == Len(SelectSeq(log, LAMBDA e : e.timestamp = t))

TimesOf(log) == {log[i].timestamp : i \in 1..Len(log)}

\* C14: when a step evicts an entry from a device's in-memory alarm log, no
\* entry older than the evicted one is still held afterwards.
C14_EvictsOldest ==
  [][\A d \in DOMAIN alarmLogs :
       \A t \in TimesOf(alarmLogs[d]) :
         CountAt(alarmLogs'[d], t) < CountAt(alarmLogs[d], t) =>
           \A t2 \in TimesOf(alarmLogs'[d]) : t2 >= t]_vars

\* C15: when a pending durable write fails, its entry is appended to the
\* in-memory alarm log of its device, and the records, the alert histories
\* and what the handlers emitted stay as message processing left them.
C15_FailedWriteKept ==
  [][(Len(mongoPending') < Len(mongoPending) /\ mongoStore' = mongoStore) =>
       \E i \in 1..Len(mongoPending) :
         LET entry == mongoPending[i]
             before == IF entry.device_id \in DOMAIN alarmLogs
                       THEN alarmLogs[entry.device_id] ELSE <<>>
         IN  /\ mongoPending' = RemoveAt(mongoPending, i)
             /\ entry.device_id \in DOMAIN alarmLogs'
             /\ alarmLogs'[entry.device_id] = Append(before, entry)
             /\ subtronicsData' = subtronicsData
             /\ emitted' = emitted
             /\ lastOp' = lastOp]_vars

\* C15 witness: with the store connected a message raised an alert, the
\* write of its log entry failed, and the entry is the last of the device's
\* in-memory log.
C15_Witness ==
  /\ mongoConnected
  /\ nMsgs = 1
  /\ lastOp.op = "mqtt"
  /\ lastOp.outcome = "processed"
  /\ Len(lastOp.alerts) = 1
  /\ mongoPending = <<>>
  /\ mongoStore = <<>>
  /\ alarmLogs["A"][Len(alarmLogs["A"])] = LogEntry("A", lastOp.alerts[1])

\* positions of an effect in the effects of the last pipeline run
EffectAt(label) == {i \in 1..Len(lastOp.effects) : lastOp.effects[i] = label}

\* C16: in every pipeline run the data emit comes before the start of any
\* durable write of the run; on a run with the store connected the alert
\* batch is appended and the alerts event emitted in the handler's own step,
\* while the writes it started are still pending; and the handler takes the
\* next message whatever writes are pending.
C16_DeliveryNeverWaits ==
  /\ []((lastOp.op \in {"mqtt", "test"} /\ lastOp.outcome # "dropped") =>
          /\ Cardinality(EffectAt("emit device:data")) = 1
          /\ \A i \in EffectAt("emit device:data") :
               \A j \in EffectAt("AlarmLog.create") : i < j)
  /\ [][(/\ nMsgs' = nMsgs + 1
         /\ mongoConnected
         /\ lastOp'.outcome = "processed"
         /\ lastOp'.alerts # <<>>) =>
          /\ mongoPending' =
               mongoPending \o [i \in 1..Len(lastOp'.alerts) |->
                                  LogEntry(lastOp'.deviceId, lastOp'.alerts[i])]
          /\ mongoStore' = mongoStore
          /\ Len(emitted') = 2
          /\ emitted'[2].event = "device:alerts"
          /\ emitted'[2].alerts = lastOp'.alerts
          /\ LET list == subtronicsData'[AlertsKey(lastOp'.deviceId)].items
             IN  SubSeq(list, Len(list) - Len(lastOp'.alerts) + 1, Len(list))
                   = lastOp'.alerts]_vars
  /\ []((mongoPending # <<>> /\ nMsgs < MaxMsgs) => ENABLED MqttMessage)

\* C16 witness: two messages were processed and broadcast while the durable
\* writes of both are still pending.
C16_Witness ==
  /\ mongoConnected
  /\ nMsgs = 2
  /\ Len(mongoPending) = 2
  /\ mongoStore = <<>>
  /\ lastOp.op = "mqtt"
  /\ lastOp.outcome = "processed"
  /\ Len(emitted) = 2
  /\ Len(subtronicsData[AlertsKey("A")].items) = 2

----------------------------------------------------------------------------
(* Properties of the order of updates and of the alert history *)

\* the items of the alert list held for a device, none if none is held
ItemsOf(m, deviceId) == MapGetOr(m, AlertsKey(deviceId), EmptyArray).items

\* C17: the n-th message to arrive is the n-th to be applied: its step makes
\* its record the current record of its serial number and emits the data
\* event of that record, numbered n, and an alert batch it records goes
\* behind the alerts of all earlier messages of the device.
C17_ArrivalOrder ==
  [][(nMsgs' = nMsgs + 1 /\ lastOp'.outcome # "dropped") =>
       LET d == lastOp'.deviceId
           rec == parseSubtronicsPayload(lastOp'.wire.value, now)
       IN  /\ lastOp'.n = nMsgs + 1
           /\ subtronicsData'[d] = rec
           /\ emitted'[1].event = "device:data"
           /\ emitted'[1].msg = nMsgs + 1
           /\ emitted'[1].data = rec
           /\ (lastOp'.outcome = "processed" /\ lastOp'.alerts # <<>>) =>
                ItemsOf(subtronicsData', d) = ItemsOf(subtronicsData, d) \o lastOp'.alerts]_vars

\* C17 witness: two messages of device A, a millisecond apart and each with
\* an alert, were processed: the alert of the first is ahead of the alert
\* of the second and the current record is the second's.
C17_Witness ==
  /\ nMsgs = 2
  /\ now = 1
  /\ lastOp.op = "mqtt"
  /\ lastOp.outcome = "processed"
  /\ AlertsKey("A") \in DOMAIN subtronicsData
  /\ subtronicsData[AlertsKey("A")].t = "array"
  /\ Len(ItemsOf(subtronicsData, "A")) = 2
  /\ ItemsOf(subtronicsData, "A")[1].timestamp = toISOString(0)
  /\ ItemsOf(subtronicsData, "A")[2].timestamp = toISOString(1)
  /\ subtronicsData["A"].processed_at = toISOString(1)

\* C18: after a message that generated alerts, by the broker handler or the
\* test endpoint, the alert history of its device ends with those alerts,
\* and every alert of a device's history was generated for that device.
C18_NoAlertLost ==
  /\ (/\ lastOp.op \in {"mqtt", "test"}
      /\ lastOp.outcome # "dropped"
      /\ lastOp.alerts # <<>>) =>
       /\ ReadAlerts(lastOp.deviceId).t = "array"
       /\ LET list == ReadAlerts(lastOp.deviceId).items
              k == Len(lastOp.alerts)
          IN  /\ Len(list) >= k
              /\ SubSeq(list, Len(list) - k + 1, Len(list)) = lastOp.alerts
  /\ \A d \in DeviceIds :
       ReadAlerts(d).t = "array" =>
         \A i \in 1..Len(ReadAlerts(d).items) :
           ReadAlerts(d).items[i].serial_number = Str(d)

\* C19: a message step that appends to a device's alert list leaves every
\* alert already in the list as it was, acknowledgment fields included, and
\* adds its whole batch; an acknowledge that succeeds changes the one alert
\* it names and keeps every alert of the list, also those appended since
\* the alert was raised.
C19_AckAtomicWithAppend ==
  [][/\ (/\ nMsgs' = nMsgs + 1
         /\ lastOp'.outcome = "processed"
         /\ lastOp'.alerts # <<>>) =>
          LET old == ItemsOf(subtronicsData, lastOp'.deviceId)
              new == ItemsOf(subtronicsData', lastOp'.deviceId)
          IN  /\ Len(new) = Len(old) + Len(lastOp'.alerts)
              /\ \A i \in 1..Len(old) : new[i] = old[i]
              /\ \A i \in 1..Len(lastOp'.alerts) : new[Len(old) + i] = lastOp'.alerts[i]
     /\ (nAcks' = nAcks + 1 /\ lastOp'.status = 200) =>
          LET old == ItemsOf(subtronicsData, lastOp'.deviceId)
              new == ItemsOf(subtronicsData', lastOp'.deviceId)
          IN  /\ Len(new) = Len(old)
              /\ \A i \in 1..Len(old) : i # lastOp'.index => new[i] = old[i]
              /\ new[lastOp'.index] =
                   [old[lastOp'.index] EXCEPT !.acknowledged_at = lastOp'.at,
                                              !.acknowledged_by = lastOp'.by]]_vars

\* C19 witness: an alert of device A was acknowledged and a later message
\* of A appended a second alert: the list holds both, the first with the
\* fields of the acknowledge.
C19_Witness ==
  /\ lastOp.op = "mqtt"
  /\ lastOp.outcome = "processed"
  /\ lastOp.deviceId = "A"
  /\ Len(lastOp.alerts) = 1
  /\ nAcks = 1
  /\ Len(ItemsOf(subtronicsData, "A")) = 2
  /\ ItemsOf(subtronicsData, "A")[1].acknowledged_at # Undefined
  /\ ItemsOf(subtronicsData, "A")[1].acknowledged_by \in Callers
  /\ ItemsOf(subtronicsData, "A")[2] = lastOp.alerts[1]

\* an alert without what an acknowledge may change
Unacknowledged(alert) ==
  [alert EXCEPT !.acknowledged = Undefined,
                !.acknowledged_at = Undefined,
                !.acknowledged_by = Undefined]

\* C20: a device's alert list only grows, by the batches generated for the
\* device, at its end: every step keeps each alert of the list in its place,
\* unchanged but for its acknowledgment fields, and a step that generates a
\* batch for the device appends exactly that batch.
C20_AppendOnlyHistory ==
  [][\A d \in DeviceIds :
       ReadAlerts(d).t = "array" =>
         LET old == ReadAlerts(d).items
             after == MapGetOr(subtronicsData', AlertsKey(d), EmptyArray)
             batch == IF /\ nMsgs' = nMsgs + 1
                         /\ lastOp'.outcome # "dropped"
                         /\ lastOp'.deviceId = d
                      THEN lastOp'.alerts ELSE <<>>
         IN  /\ after.t = "array"
             /\ Len(after.items) = Len(old) + Len(batch)
             /\ \A i \in 1..Len(old) :
                  Unacknowledged(after.items[i]) = Unacknowledged(old[i])
             /\ \A i \in 1..Len(batch) : after.items[Len(old) + i] = batch[i]]_vars

----------------------------------------------------------------------------
(* Properties of the normaliser, under SpecParse *)

\* a record has been produced for the payload drawn
Parsed == call.fn \in {"parsed", "twice"} /\ call.rec # Null

\* the four accepted places of the primary reading, in the order of the chain
ReadingFields(raw) ==
  <<ParamsOf(raw).liveSp, ParamsOf(raw).live, AsObject(raw).sensorReading,
    ParamsOf(raw).offset>>

Present(raw) == {i \in 1..4 : ReadingFields(raw)[i] # Undefined}

Earliest(raw) == CHOOSE i \in Present(raw) : \A j \in Present(raw) : i <= j

RecordFields ==
  {"t", "serial_number", "timestamp", "unit", "sensor_reading", "offset",
   "alarm_status", "a1_level", "a2_level", "a3_level", "alarm1_led", "alarm2_led",
   "alarm3_led", "sensor_fault", "raw_message", "processed_at"}

\* the payload carries a time of reading the normaliser takes
CarriesTime(raw) ==
  Truthy(AsObject(raw).dateTime) \/ Truthy(AsObject(raw).timestamp)

C24_StatusFromFlags ==
  Parsed =>
    LET rec == call.rec
        one == Num(1 * Scale)
        flagged == \/ rec.sensor_fault = one \/ rec.alarm1_led = one
                   \/ rec.alarm2_led = one \/ rec.alarm3_led = one
        without == parseSubtronicsPayload([call.raw EXCEPT !.alarmStatus = Undefined], 0)
    IN  /\ rec.alarm_status = (IF flagged THEN "ALARM" ELSE "NORMAL")
        /\ rec.alarm_status = without.alarm_status

\* a payload that says "Alarm Status": "NORMAL" with an LED at 1, and one
\* that says "ALARM" with no flag at 1
C24_Witness ==
  /\ Parsed
  /\ \/ /\ call.raw.alarmStatus = Str("NORMAL")
        /\ call.rec.alarm1_led = Num(1 * Scale)
        /\ call.rec.sensor_fault = Num(0)
        /\ call.rec.alarm_status = "ALARM"
     \/ /\ call.raw.alarmStatus = Str("ALARM")
        /\ call.rec.alarm_status = "NORMAL"

\* C25: in every record each of alarm1_led, alarm2_led, alarm3_led and
\* sensor_fault is 0 or 1, whatever the payload carried for it.
C25_FlagsAreBits ==
  Parsed =>
    \A f \in {"alarm1_led", "alarm2_led", "alarm3_led", "sensor_fault"} :
      call.rec[f] \in {Num(0), Num(1 * Scale)}

----------------------------------------------------------------------------
(* Alarm levels, under SpecRules *)

\* C26: when the payload's Parameters carries an integer v for Alarm Level
\* A1, A2 or A3, v = 0 included, the record's a1_level, a2_level or a3_level
\* is v, and the rule engine compares the reading against v: a numeric
\* reading at or above every level the payload carries raises the level 3
\* alert with that a3 as threshold.
C26_LevelsAsCarried ==
  LET p == ParamsOf(call.raw)
  IN  /\ call.fn \in {"parsed", "evaluated"} =>
           /\ p.a1.t = "number" => call.rec.a1_level = p.a1
           /\ p.a2.t = "number" => call.rec.a2_level = p.a2
           /\ p.a3.t = "number" => call.rec.a3_level = p.a3
      /\ (call.fn = "evaluated" /\ p.a3.t = "number" /\ Ge(call.rec.sensor_reading, p.a3)) =>
           \E i \in 1..Len(call.alerts) :
             /\ call.alerts[i].type = "alarm_level_3"
             /\ call.alerts[i].threshold = p.a3

----------------------------------------------------------------------------
(* The REST view of the latest record, under SpecFanout *)

\* C27: reading the latest record over REST leaves the current-record map as
\* it is: the map changes only in a step that processes a message, a device
\* no message came from has no current record, and a subscribe to such a
\* device is answered without a snapshot record.
C27_LatestIsPureRead ==
  /\ [][subtronicsData' # subtronicsData => nMsgs' = nMsgs + 1]_vars
  /\ [](\A deviceId \in DeviceIds \ DOMAIN lastMsg :
          /\ ~(deviceId \in DOMAIN subtronicsData /\ subtronicsData[deviceId].t = "record")
          /\ (lastOp.op = "subscribe" /\ lastOp.deviceId = deviceId) =>
               \A i \in 1..Len(emitted) : emitted[i].data.t # "record")

----------------------------------------------------------------------------
(* The alarm-log query, under SpecQuery *)

Supplied(x) == x # Undefined

\* the instant a date of the request names
InstantOf(x) == CHOOSE ms \in PastTimes : toISOString(ms) = x

\* the entry satisfies every filter the answered request supplied
Matches(log) ==
  /\ call.route = "device" => log.device_id = call.deviceId
  /\ (call.route = "all" /\ Supplied(call.q.device_id)) => Str(log.device_id) = call.q.device_id
  /\ Supplied(call.q.start_date) => log.timestamp >= InstantOf(call.q.start_date)
  /\ Supplied(call.q.end_date) => log.timestamp <= InstantOf(call.q.end_date)
  /\ Supplied(call.q.alarm_type) => Str(log.alarm_type) = call.q.alarm_type
  /\ Supplied(call.q.severity) => Str(log.severity) = call.q.severity

Occurs(log, e) == Cardinality({i \in 1..Len(log) : log[i] = e})

MatchingHeld == SelectSeq(call.held, Matches)

\* C28: an alarm-log query over the in-memory log returns entries of the log
\* that satisfy every supplied filter (device id, start and end of the time
\* range inclusive, alarm type, severity), newest first by timestamp, and
\* for a limit n that is not negative at most n of them, the newest matching
\* ones (all matching ones when there are no more than n).
C28_QueryResult ==
  call.fn = "alarm-logs" =>
    LET logs == call.logs
        n == ParseLimit(call.q.limit)
    IN  /\ \A i \in 1..Len(logs) :
             /\ Matches(logs[i])
             /\ Occurs(logs, logs[i]) <= Occurs(call.held, logs[i])
        /\ \A i, j \in 1..Len(logs) : i < j => logs[i].timestamp >= logs[j].timestamp
        /\ n.t = "number" =>
             /\ Len(logs) = (IF n.v < Len(MatchingHeld) THEN n.v ELSE Len(MatchingHeld))
             /\ \A k \in 1..Len(MatchingHeld) :
                  Occurs(MatchingHeld, MatchingHeld[k]) > Occurs(logs, MatchingHeld[k])
                    => \A i \in 1..Len(logs) :
                         logs[i].timestamp >= MatchingHeld[k].timestamp

\* a query by severity with limit 1 on a log that holds an older matching
\* entry ahead of a newer one and an entry that does not match: the answer
\* is the newer matching entry
C28_Witness ==
  /\ call.fn = "alarm-logs"
  /\ call.q.severity = Str("critical")
  /\ call.q.limit = Str("1")
  /\ Len(MatchingHeld) = 2
  /\ Len(call.held) > 2
  /\ MatchingHeld[1].timestamp < MatchingHeld[2].timestamp
  /\ call.logs = <<MatchingHeld[2]>>

----------------------------------------------------------------------------
(* Payloads without serial number and the order of the levels, under       *)
(* SpecUnknown *)

\* C29: all payloads that lack "OTSM-2 Serial Number" share the key
\* "Unknown": whatever number of them was processed, the one current record
\* there is lies under that key and is that of the last one processed, and
\* the alerts of each go behind those of the earlier ones in the one alert
\* history of that key.
C29_SharedUnknownKey ==
  /\ [](nMsgs > 0 =>
          /\ lastOp.deviceId = "Unknown"
          /\ {k \in DOMAIN subtronicsData : subtronicsData[k].t = "record"} = {"Unknown"}
          /\ subtronicsData["Unknown"].raw_message = lastOp.wire.value
          /\ DOMAIN subtronicsData \subseteq {"Unknown", AlertsKey("Unknown")})
  /\ [][nMsgs' = nMsgs + 1 =>
          ItemsOf(subtronicsData', "Unknown")
            = ItemsOf(subtronicsData, "Unknown") \o lastOp'.alerts]_vars

\* two payloads without serial number, of different readings, were
\* processed: the record is the second's, the history holds one alert of each
C29_Witness ==
  /\ nMsgs = 2
  /\ subtronicsData["Unknown"].sensor_reading = Num(600 * Scale)
  /\ Len(ItemsOf(subtronicsData, "Unknown")) = 2
  /\ ItemsOf(subtronicsData, "Unknown")[1].current_value = Num(1200 * Scale)
  /\ ItemsOf(subtronicsData, "Unknown")[2].current_value = Num(600 * Scale)

\* C30: in every canonical record that is a device's current record the
\* thresholds are ascending: a1_level <= a2_level <= a3_level.
C30_LevelsAscending ==
  \A k \in DOMAIN subtronicsData :
    subtronicsData[k].t = "record" =>
      /\ subtronicsData[k].a1_level.v <= subtronicsData[k].a2_level.v
      /\ subtronicsData[k].a2_level.v <= subtronicsData[k].a3_level.v

----------------------------------------------------------------------------
(* The alerts event, under SpecFanout *)

\* the device:alerts events of the last handler
AlertsEventsOf(ev) == SelectSeq(ev, LAMBDA e : e.event = "device:alerts")

\* C31: a device:alerts event is emitted for a message if and only if the
\* rule engine produced at least one alert for its record; the event
\* carries exactly the alerts generated for that message, and the same
\* batch is what the device's alert history was extended by.
C31_AlertsEventIffAlerts ==
  (lastOp.op \in {"mqtt", "test"} /\ lastOp.outcome # "dropped") =>
    /\ (lastOp.alerts # <<>>) <=> (Len(AlertsEventsOf(emitted)) = 1)
    /\ \A i \in 1..Len(AlertsEventsOf(emitted)) :
         /\ AlertsEventsOf(emitted)[i].alerts = lastOp.alerts
         /\ AlertsEventsOf(emitted)[i].deviceId = lastOp.deviceId
    /\ lastOp.alerts # <<>> =>
         /\ ReadAlerts(lastOp.deviceId).t = "array"
         /\ LET items == ReadAlerts(lastOp.deviceId).items
                k == Len(lastOp.alerts)
            IN  /\ Len(items) >= k
                /\ SubSeq(items, Len(items) - k + 1, Len(items)) = lastOp.alerts

----------------------------------------------------------------------------
(* Every alert reaches the alarm log, under SpecHistoryFair *)

\* the log entries of the alerts the messages of the input set can raise
GeneratedEntries ==
  UNION {{LogEntry(parseSubtronicsPayload(p, ms).serial_number.s,
                   generateSubtronicsAlerts(parseSubtronicsPayload(p, ms), ms)[i]) :
            i \in 1..Len(generateSubtronicsAlerts(parseSubtronicsPayload(p, ms), ms))} :
         p \in Payloads, ms \in 0..MaxClock}

Holds(log, e) == \E i \in 1..Len(log) : log[i] = e

InMemory(e) == e.device_id \in DOMAIN alarmLogs /\ Holds(alarmLogs[e.device_id], e)

\* the last k entries of a log
LastOf(log, k) == SubSeq(log, Len(log) - k + 1, Len(log))

\* C32: with every durable write settled at some time, every alert the rule
\* engine generates is recorded as an alarm log entry: the handler's step
\* puts its entry into the in-memory log of its device or starts a durable
\* write for it, a write that is settled leaves the entry in the durable
\* store or in the in-memory log, and no write stays pending forever.
C32_EveryAlertRecorded ==
  /\ [][(nMsgs' = nMsgs + 1 /\ lastOp'.outcome # "dropped") =>
          LET entries == [i \in 1..Len(lastOp'.alerts) |->
                            LogEntry(lastOp'.deviceId, lastOp'.alerts[i])]
              k == Len(entries)
          IN  IF mongoConnected
              THEN Len(mongoPending') >= k /\ LastOf(mongoPending', k) = entries
              ELSE k > 0 => /\ lastOp'.deviceId \in DOMAIN alarmLogs'
                            /\ Len(alarmLogs'[lastOp'.deviceId]) >= k
                            /\ LastOf(alarmLogs'[lastOp'.deviceId], k) = entries]_vars
  /\ \A e \in GeneratedEntries :
       Holds(mongoPending, e) ~> (Holds(mongoStore, e) \/ InMemory(e))
  /\ <>[](mongoPending = <<>>)

\* two alerts were generated with the store connected; the write of one
\* succeeded, that of the other failed, and none is pending
C32_Witness ==
  /\ mongoConnected
  /\ nMsgs = 2
  /\ mongoPending = <<>>
  /\ Len(mongoStore) = 1
  /\ \E e \in GeneratedEntries : InMemory(e) /\ ~Holds(mongoStore, e)

----------------------------------------------------------------------------
(* Alerts and their alarm log entries, under SpecHistory *)

\* the alarm log entries of a device, wherever they are: written to the
\* durable store, awaited, or in memory
EntriesOf(pending, store, logs, d) ==
  SelectSeq(pending, LAMBDA e : e.device_id = d)
    \o SelectSeq(store, LAMBDA e : e.device_id = d)
    \o (IF d \in DOMAIN logs THEN logs[d] ELSE <<>>)

\* the entry is the one logAlarmEvent writes for the alert
EntryFor(e, alert) ==
  /\ Str(e.device_id) = alert.serial_number
  /\ e.alarm_type = alert.type
  /\ e.severity = alert.severity
  /\ e.current_value = alert.current_value
  /\ toISOString(e.timestamp) = alert.timestamp
  /\ e.acknowledged = FALSE

\* C33: every alert that is placed in a device's alert history has exactly
\* one alarm-log write started for it, with device_id the alert's serial
\* number, alarm_type and severity those of the alert and acknowledged
\* false; and no alarm log entry comes into being without a generated
\* alert: the entries of a device grow by one for each alert of a processed
\* message and in no other step.
C33_OneLogWritePerAlert ==
  /\ [][\A d \in DeviceIds :
          LET before == EntriesOf(mongoPending, mongoStore, alarmLogs, d)
              after == EntriesOf(mongoPending', mongoStore', alarmLogs', d)
              batch == IF /\ nMsgs' = nMsgs + 1
                          /\ lastOp'.outcome # "dropped"
                          /\ lastOp'.deviceId = d
                       THEN lastOp'.alerts ELSE <<>>
          IN  /\ Len(after) = Len(before) + Len(batch)
              /\ \A i \in 1..Len(batch) :
                   Cardinality({j \in 1..Len(after) : EntryFor(after[j], batch[i])})
                     = Cardinality({j \in 1..Len(before) : EntryFor(before[j], batch[i])})
                         + Cardinality({k \in 1..Len(batch) : batch[k].type = batch[i].type})]_vars
  /\ [](\A k \in AlertLists :
          \A i \in 1..Len(subtronicsData[k].items) :
            LET alert == subtronicsData[k].items[i]
                all == EntriesOf(mongoPending, mongoStore, alarmLogs, alert.serial_number.s)
            IN  Cardinality({j \in 1..Len(all) : EntryFor(all[j], alert)})
                  >= Cardinality({j \in 1..Len(subtronicsData[k].items) :
                                    subtronicsData[k].items[j] = alert}))

\* an alert of device A whose write went to the durable store and one whose
\* entry is in memory, both in A's alert history
C33_Witness ==
  /\ AlertsKey("A") \in AlertLists
  /\ Len(subtronicsData[AlertsKey("A")].items) = 2
  /\ Len(mongoStore) = 1
  /\ mongoPending = <<>>
  /\ "A" \in DOMAIN alarmLogs
  /\ Len(alarmLogs["A"]) = 1
  /\ EntryFor(mongoStore[1], subtronicsData[AlertsKey("A")].items[1])
  /\ EntryFor(alarmLogs["A"][1], subtronicsData[AlertsKey("A")].items[2])

----------------------------------------------------------------------------
(* Isolation of the devices in the device state store, under SpecStore *)

\* C34: per-device state is isolated by device id, also for the ids d and
\* d followed by "_alerts": what the map holds as a device's current record
\* (read by the REST route and by the subscribe snapshot) is a canonical
\* record, and what it holds as a device's alert history is a list of the
\* alerts generated for that device.
C34_IsolatedByDeviceId ==
  \A d \in DeviceIds :
    /\ d \in DOMAIN subtronicsData => subtronicsData[d].t = "record"
    /\ AlertsKey(d) \in DOMAIN subtronicsData =>
         /\ subtronicsData[AlertsKey(d)].t = "array"
         /\ \A i \in 1..Len(subtronicsData[AlertsKey(d)].items) :
              subtronicsData[AlertsKey(d)].items[i].serial_number = Str(d)

----------------------------------------------------------------------------
(* The frame of the alarm-log queries, under SpecQuery *)

\* C35: the alarm-log queries are read-only with respect to the in-memory
\* alarm log: a step that answers a query (per-device or all-device, with or
\* without filters) leaves the contents and the order of every device's
\* stored log entries as they were.
C35_QueriesAreReadOnly ==
  [][call' # call => alarmLogs' = alarmLogs]_vars

----------------------------------------------------------------------------
(* What an unfiltered query returns of the recorded history, under          *)
(* SpecHistory                                                              *)

\* the entries recorded for a device: those in the durable store and those
\* in the in-memory log (a write still in flight is not recorded yet)
Recorded(d) == EntriesOf(<<>>, mongoStore, alarmLogs, d)

\* C36: every alarm log entry that has been recorded, in the durable store
\* or in the in-memory fallback, before or after the durable store became
\* connected, is returned by a later unfiltered query for its device (fewer
\* entries are recorded here than the limit or the cap).
C36_RecordedIsReturned ==
  [][(call' # call /\ call'.fn = "alarm-logs") =>
       \A i \in 1..Len(Recorded(call'.deviceId)) :
         Holds(call'.logs, Recorded(call'.deviceId)[i])]_vars

----------------------------------------------------------------------------
(* The alerts against the derived status, under SpecRules *)

\* C37 as stated: whenever the rule engine emits at least one alert for a
\* record produced by the normaliser, that record's alarm_status is ALARM.
C37_AsStated ==
  (call.fn = "evaluated" /\ call.alerts # <<>>) => call.rec.alarm_status = "ALARM"

\* C37: whenever the rule engine emits a sensor_fault alert for a record
\* produced by the normaliser, that record's alarm_status is ALARM; the
\* threshold alerts come from the reading and the levels regardless of the
\* LED flags, and a record whose flags are all clear has status NORMAL
\* whatever threshold alert is emitted for it.
C37_FaultAlertMeansAlarm ==
  call.fn = "evaluated" =>
    /\ FaultOnly(call.alerts) # <<>> => call.rec.alarm_status = "ALARM"
    /\ (/\ call.rec.sensor_fault # Num(1 * Scale)
        /\ call.rec.alarm1_led # Num(1 * Scale)
        /\ call.rec.alarm2_led # Num(1 * Scale)
        /\ call.rec.alarm3_led # Num(1 * Scale)) => call.rec.alarm_status = "NORMAL"

\* C37 witness: a sensor_fault alert and a threshold alert have been emitted
\* for a record whose status is ALARM
C37_Witness ==
  /\ call.fn = "evaluated"
  /\ FaultOnly(call.alerts) # <<>>
  /\ ThresholdOnly(call.alerts) # <<>>
  /\ call.rec.alarm_status = "ALARM"

----------------------------------------------------------------------------
(* The acknowledgement against the alarm log, under SpecStore *)

\* the alert that the last acknowledge marked
Acknowledged == ReadAlerts(lastOp.deviceId).items[lastOp.index]

\* C38: a successful acknowledge is reflected in the alarm log: after alert
\* Y of device X has been acknowledged, the alarm log holds the entry
\* recorded for Y marked as acknowledged (so that the statistics count it as
\* acknowledged).
C38_AckReachesLog ==
  (/\ lastOp.op = "ack"
   /\ lastOp.status = 200
   /\ ReadAlerts(lastOp.deviceId).t = "array"
   /\ lastOp.index <= Len(ReadAlerts(lastOp.deviceId).items)) =>
    LET log == EntriesOf(mongoPending, mongoStore, alarmLogs,
                         Acknowledged.serial_number.s)
    IN  \E i \in 1..Len(log) :
          /\ log[i].alarm_type = Acknowledged.type
          /\ toISOString(log[i].timestamp) = Acknowledged.timestamp
          /\ log[i].acknowledged = TRUE

----------------------------------------------------------------------------
(* The test endpoint and the broker's echo, under SpecLoopback *)

\* C39: a payload submitted through the test endpoint is processed exactly
\* once, also with the broker connected: when the broker delivers the
\* gateway's own publication back to it, no subscriber receives a further
\* event and the device state store, with the alert histories in it, stays
\* as the test endpoint left it.
C39_ProcessedOnce ==
  [][Len(loopback') < Len(loopback) =>
       /\ emitted' = <<>>
       /\ subtronicsData' = subtronicsData
       /\ alarmLogs' = alarmLogs]_vars

====
